---- MODULE Spec2Model ----
(***************************************************************************)
(* TypeOneZen rule-based alert engine (monitor.py) over its SQLite store.  *)
(*                                                                         *)
(* Time is counted in whole minutes since an arbitrary UTC midnight.  All  *)
(* timestamps the engine writes come from utc_now().isoformat(); two such  *)
(* strings compare (as TEXT) in the order of the instants they denote, so  *)
(* they are kept as integers and compared as integers.  The one place the  *)
(* code compares an ISO string with the output of SQLite's datetime() is   *)
(* modelled by IsoGeSql / IsoLeSql below.                                  *)
(***************************************************************************)
EXTENDS Integers, Sequences, FiniteSets, TLC

\* ---------------------------------------------------------------- bounds
MaxLog == 4
MaxSnoozes == 1
MaxPolls == 1
MaxFaults == 1
MaxHist == 3
MaxSchedule == 3
MaxReadings == 3
MaxRows == 3
MaxSnoozeRows == 3
MaxDoses == 2

\* ------------------------------------------------------ program constants
AIT_MINUTES == 180
ISF == 35
TARGET_BG == 110
SCHEDULE_DEFAULT == <<0, 30, 60, 60, 60>>
SCHEDULE_URGENT == <<0, 15, 15, 15, 15>>
DEFAULT_SNOOZE_DURATION == 120
NYOffset == 5 * 60
DayLen == 24 * 60

TREND_LABELS ==
  {"rising quickly", "rising", "rising slightly", "steady",
   "falling slightly", "falling", "falling quickly"}

TREND_RATES(label) ==
  CASE label = "rising quickly" -> 30
    [] label = "rising" -> 15
    [] label = "rising slightly" -> 7
    [] label = "steady" -> 0
    [] label = "falling slightly" -> -7
    [] label = "falling" -> -15
    [] label = "falling quickly" -> -30

\* The run set of main(), in evaluation order (PRE_WORKOUT_LOW_RISK is
\* commented out of the list in the source).
rules == <<"POST_MEAL_SPIKE", "SUSTAINED_HIGH", "RAPID_DROP",
           "OVERNIGHT_HIGH", "LOW_WARNING">>

RuleNames == {rules[i] : i \in 1..Len(rules)}

NULL == -1
Procs == {1, 2}

VARIABLES
  now,              \* the wall clock, utc_now()
  t0,               \* the instant of the initial state (never changes)
  glucose_readings, \* table glucose_readings, ascending timestamp
  meals,            \* table meals
  insulin_doses,    \* table insulin_doses
  alert_log,        \* table alert_log, in rowid order
  alert_snoozes,    \* table alert_snoozes, in rowid order
  imsg_log,         \* the calls of send_imsg so far: "ok" or "raised"
  pc,               \* per process: position inside main()
  args,             \* per process: parsed command line
  trace,            \* per process, per rule: what the loop did with the rule
  all_alerts,       \* per process: collected candidates
  now_iso,          \* per process: the stamp taken at line 1050
  di,               \* per process: index of the next candidate to dispatch
  sent_count,       \* per process: sent_count of main()
  exit_status,      \* per process: how its last invocation ended (NULL: none has)
  PHONE,            \* the module's PHONE, read from ALERT_PHONE at import
  probe             \* input and output of a function applied on its own

vars == <<now, t0, glucose_readings, meals, insulin_doses, alert_log,
          alert_snoozes, imsg_log, pc, args, trace, all_alerts,
          now_iso, di, sent_count, exit_status, PHONE, probe>>

storeIn == <<glucose_readings, meals, insulin_doses>>
procVars == <<pc, args, trace, all_alerts, now_iso, di, sent_count>>

\* ---------------------------------------------------------------- helpers
Min(a, b) == IF a < b THEN a ELSE b
Max(a, b) == IF a > b THEN a ELSE b

\* Python round(x, k) on the quotient n/d already scaled by 10^k:
\* nearest integer, exact halves to the even neighbour.
RoundDiv(n, d) ==
  LET q == n \div d
      r == n % d
  IN IF 2 * r < d THEN q
     ELSE IF 2 * r > d THEN q + 1
     ELSE IF q % 2 = 0 THEN q ELSE q + 1

RECURSIVE SumField(_, _)
SumField(s, fld) ==
  IF s = <<>> THEN 0 ELSE Head(s)[fld] + SumField(Tail(s), fld)

RECURSIVE MaxField(_, _)
MaxField(s, fld) ==
  IF Len(s) = 1 THEN s[1][fld] ELSE Max(Head(s)[fld], MaxField(Tail(s), fld))

Reverse(s) == [i \in 1..Len(s) |-> s[Len(s) + 1 - i]]

\* ORDER BY <fld> ASC over rows kept in rowid order (stable insertion sort).
RECURSIVE InsertAsc(_, _, _)
InsertAsc(s, x, fld) ==
  IF s = <<>> THEN <<x>>
  ELSE IF s[Len(s)][fld] <= x[fld] THEN Append(s, x)
  ELSE Append(InsertAsc(SubSeq(s, 1, Len(s) - 1), x, fld), s[Len(s)])

RECURSIVE OrderByAsc(_, _)
OrderByAsc(s, fld) ==
  IF s = <<>> THEN <<>>
  ELSE InsertAsc(OrderByAsc(SubSeq(s, 1, Len(s) - 1), fld), s[Len(s)], fld)

\* SQLite datetime(ts, '+k minutes') prints "YYYY-MM-DD HH:MM:SS"; the
\* stored timestamps are "YYYY-MM-DDTHH:MM:SS...".  TEXT comparison decides
\* on the date when the dates differ and on 'T' > ' ' when they agree.
Day(t) == t \div DayLen
IsoGeSql(iso, sql) == Day(iso) >= Day(sql)
IsoLeSql(iso, sql) == Day(iso) < Day(sql)

\* datetime.now(NY).hour
ny_hour(t) == ((t - NYOffset) % DayLen) \div 60


\* ------------------------------------------------------------ store reads
\* SELECT ... FROM glucose_readings ORDER BY timestamp DESC LIMIT n
latest_readings(n) ==
  LET desc == Reverse(glucose_readings)
  IN SubSeq(desc, 1, Min(n, Len(desc)))

\* SELECT ... FROM glucose_readings WHERE timestamp > cutoff ORDER BY timestamp
readings_since(cutoff) ==
  SelectSeq(glucose_readings, LAMBDA r : r.timestamp > cutoff)

\* get_alert_history that never filters on dedup_key.
get_alert_history_unkeyed(rule_name, minutes, dedup_key) ==
  LET cutoff == now - minutes
      rows == SelectSeq(alert_log, LAMBDA a :
                /\ a.rule_name = rule_name
                /\ a.triggered_at > cutoff)
  IN OrderByAsc(rows, "triggered_at")

\* get_alert_history that takes the rows of delivered alerts only.
get_alert_history_sent_only(rule_name, minutes, dedup_key) ==
  LET cutoff == now - minutes
      rows == SelectSeq(alert_log, LAMBDA a :
                /\ a.rule_name = rule_name
                /\ a.triggered_at > cutoff
                /\ a.sent = 1
                /\ (dedup_key # NULL => a.dedup_key = dedup_key))
  IN OrderByAsc(rows, "triggered_at")

\* get_alert_history in which a snooze of the rule counts as a record of it,
\* written when the snooze was created.
get_alert_history_with_snoozes(rule_name, minutes, dedup_key) ==
  LET cutoff == now - minutes
      rows == SelectSeq(alert_log, LAMBDA a :
                /\ a.rule_name = rule_name
                /\ a.triggered_at > cutoff
                /\ (dedup_key # NULL => a.dedup_key = dedup_key))
      sn == SelectSeq(alert_snoozes, LAMBDA z :
                z.rule_name \in {rule_name, "ALL"} /\ z.snoozed_at > cutoff)
      pseudo == [i \in 1..Len(sn) |->
                   [rule_name |-> rule_name, triggered_at |-> sn[i].snoozed_at,
                    message |-> 0, sent |-> 0, dedup_key |-> dedup_key]]
  IN OrderByAsc(rows \o pseudo, "triggered_at")

\* get_alert_history that still returns a row written exactly `minutes` ago.
get_alert_history_inclusive(rule_name, minutes, dedup_key) ==
  LET cutoff == now - minutes
      rows == IF dedup_key # NULL
              THEN SelectSeq(alert_log, LAMBDA a :
                     /\ a.rule_name = rule_name
                     /\ a.triggered_at >= cutoff
                     /\ a.dedup_key = dedup_key)
              ELSE SelectSeq(alert_log, LAMBDA a :
                     /\ a.rule_name = rule_name
                     /\ a.triggered_at >= cutoff)
  IN OrderByAsc(rows, "triggered_at")

get_alert_history(rule_name, minutes, dedup_key) ==
  LET cutoff == now - minutes
      rows == IF dedup_key # NULL
              THEN SelectSeq(alert_log, LAMBDA a :
                     /\ a.rule_name = rule_name
                     /\ a.triggered_at > cutoff
                     /\ a.dedup_key = dedup_key)
              ELSE SelectSeq(alert_log, LAMBDA a :
                     /\ a.rule_name = rule_name
                     /\ a.triggered_at > cutoff)
  IN OrderByAsc(rows, "triggered_at")

\* should_escalate with the wait compared strictly: it does not fire at the
\* minute the wait ends.
should_escalate_strict(alert_history, schedule, t) ==
  LET n == Len(alert_history)
  IN IF n = 0 THEN <<TRUE, 0>>
     ELSE LET wait_minutes == schedule[Min(n, Len(schedule) - 1) + 1]
              elapsed == t - alert_history[n].triggered_at
          IN IF elapsed > wait_minutes THEN <<TRUE, n>> ELSE <<FALSE, n>>

\* should_escalate that fires the first alert of an episode and no other.
should_escalate_once(alert_history, schedule, t) ==
  IF Len(alert_history) = 0 THEN <<TRUE, 0>>
  ELSE <<FALSE, Len(alert_history)>>

\* should_escalate that never waits.
should_escalate_no_wait(alert_history, schedule, t) ==
  <<TRUE, Len(alert_history)>>

\* should_escalate that keeps the level in the process: until some
\* invocation has ended, the history is taken to be empty.
should_escalate_held(alert_history, schedule, t) ==
  LET n == IF \A p \in DOMAIN exit_status : exit_status[p] = NULL
           THEN 0 ELSE Len(alert_history)
  IN IF n = 0 THEN <<TRUE, 0>>
     ELSE LET wait_minutes == schedule[Min(n, Len(schedule) - 1) + 1]
              elapsed == t - alert_history[n].triggered_at
          IN IF elapsed >= wait_minutes THEN <<TRUE, n>> ELSE <<FALSE, n>>

\* Returns <<should_fire, level>>; t is utc_now().
should_escalate(alert_history, schedule, t) ==
  LET n == Len(alert_history)
  IN IF n = 0 THEN <<TRUE, 0>>
     ELSE LET wait_minutes == schedule[Min(n, Len(schedule) - 1) + 1]
              elapsed == t - alert_history[n].triggered_at
          IN IF elapsed >= wait_minutes THEN <<TRUE, n>> ELSE <<FALSE, n>>

\* snooze_matches that takes a row for the rule's own name only.
snooze_matches_exact(s, rule_name, t) ==
  /\ s.rule_name = rule_name
  /\ s.expires_at > t

\* snooze_matches that still takes a row at the minute it expires.
snooze_matches_inclusive(s, rule_name, t) ==
  /\ (s.rule_name = rule_name \/ s.rule_name = "ALL")
  /\ s.expires_at >= t

snooze_matches(s, rule_name, t) ==
  /\ (s.rule_name = rule_name \/ s.rule_name = "ALL")
  /\ s.expires_at > t

is_snoozed(rule_name) ==
  \E i \in 1..Len(alert_snoozes) : snooze_matches(alert_snoozes[i], rule_name, now)

\* was_recently_alerted looking back half as far.
was_recently_alerted_half(rule_name, minutes) ==
  LET cutoff == now - minutes \div 2
  IN \E i \in 1..Len(alert_log) :
       /\ alert_log[i].rule_name = rule_name
       /\ alert_log[i].triggered_at > cutoff

was_recently_alerted(rule_name, minutes) ==
  LET cutoff == now - minutes
  IN \E i \in 1..Len(alert_log) :
       /\ alert_log[i].rule_name = rule_name
       /\ alert_log[i].triggered_at > cutoff

\* --------------------------------------------------------------- estimators
\* estimate_iob, in hundredths of a unit (the value is rounded to 2 places).
RECURSIVE iob_sum(_)
iob_sum(doses) ==
  IF doses = <<>> THEN 0
  ELSE LET dose == Head(doses)
           elapsed_min == now - dose.timestamp
       IN dose.units100 * Max(0, AIT_MINUTES - elapsed_min) + iob_sum(Tail(doses))

\* estimate_iob that takes the doses of every type.
estimate_iob_all_types ==
  LET cutoff == now - AIT_MINUTES
      doses == SelectSeq(insulin_doses, LAMBDA d : d.timestamp > cutoff)
  IN RoundDiv(iob_sum(doses), AIT_MINUTES)

estimate_iob ==
  LET cutoff == now - AIT_MINUTES
      doses == SelectSeq(insulin_doses, LAMBDA d :
                 d.timestamp > cutoff /\ d.type \in {"bolus", "correction"})
  IN RoundDiv(iob_sum(doses), AIT_MINUTES)

\* get_bg_trend; rate_per_15 is kept in tenths (rate10) because the fallback
\* rounds it to one decimal place.
\* get_bg_trend without the fallback: a reading whose label is not in the
\* table gives rate 0, stable.
get_bg_trend_table_only ==
  LET readings == latest_readings(3)
      none == [rate10 |-> 0, description |-> "stable", current_bg |-> NULL,
               current_ts |-> NULL, dexcom_trend |-> ""]
  IN IF readings = <<>> THEN none
     ELSE LET newest == readings[1]
              base == [none EXCEPT !.current_bg = newest.glucose_mg_dl,
                                   !.current_ts = newest.timestamp,
                                   !.dexcom_trend = newest.trend]
          IN IF newest.trend \in TREND_LABELS
             THEN LET rate == TREND_RATES(newest.trend)
                  IN [base EXCEPT !.rate10 = 10 * rate,
                        !.description = IF rate > 5 THEN "rising"
                                        ELSE IF rate < -5 THEN "falling"
                                        ELSE "stable"]
             ELSE base

get_bg_trend ==
  LET readings == latest_readings(3)
      none == [rate10 |-> 0, description |-> "stable", current_bg |-> NULL,
               current_ts |-> NULL, dexcom_trend |-> ""]
  IN IF readings = <<>> THEN none
     ELSE LET newest == readings[1]
              oldest == readings[Len(readings)]
              base == [none EXCEPT !.current_bg = newest.glucose_mg_dl,
                                   !.current_ts = newest.timestamp,
                                   !.dexcom_trend = newest.trend]
          IN IF newest.trend \in TREND_LABELS
             THEN LET rate == TREND_RATES(newest.trend)
                  IN [base EXCEPT !.rate10 = 10 * rate,
                        !.description = IF rate > 5 THEN "rising"
                                        ELSE IF rate < -5 THEN "falling"
                                        ELSE "stable"]
             ELSE IF Len(readings) >= 2
                     /\ newest.timestamp - oldest.timestamp > 0
             THEN LET span_min == newest.timestamp - oldest.timestamp
                      diff == newest.glucose_mg_dl - oldest.glucose_mg_dl
                  IN [base EXCEPT !.rate10 = RoundDiv(diff * 150, span_min),
                        !.description = IF diff * 15 > 5 * span_min THEN "rising"
                                        ELSE IF diff * 15 < (-5) * span_min
                                        THEN "falling"
                                        ELSE "stable"]
             ELSE base

\* A candidate alert; level stands for the message tier the rule composed.
Candidate(rule, level, dedup_key) ==
  [rule |-> rule, level |-> level, dedup_key |-> dedup_key]


\* -------------------------------------------------------------------- rules
\* One meal of rule_post_meal_spike's loop: the candidates it appends.
post_meal_spike_for(meal) ==
  LET meal_ts == meal.timestamp
      history == get_alert_history("POST_MEAL_SPIKE", 4 * 60, meal_ts)
      esc == should_escalate(history, SCHEDULE_DEFAULT, now)
      level == esc[2]
      base_rows == SelectSeq(glucose_readings, LAMBDA r :
                     IsoGeSql(r.timestamp, meal_ts - 30) /\ r.timestamp <= meal_ts)
      peak_rows == SelectSeq(glucose_readings, LAMBDA r :
                     /\ IsoGeSql(r.timestamp, meal_ts + 30)
                     /\ IsoLeSql(r.timestamp, meal_ts + 120))
      current == latest_readings(1)
  IN IF now - meal_ts > 4 * 60 THEN <<>>
     ELSE IF ~esc[1] THEN <<>>
     ELSE IF base_rows = <<>> THEN <<>>
     ELSE IF peak_rows = <<>> THEN <<>>
     \* rise = peak_bg - AVG(base) <= 60
     ELSE IF (MaxField(peak_rows, "glucose_mg_dl") - 60) * Len(base_rows)
               <= SumField(base_rows, "glucose_mg_dl") THEN <<>>
     ELSE IF current = <<>> THEN <<>>
     ELSE IF level > 0 /\ current[1].glucose_mg_dl <= 160 THEN <<>>
     ELSE <<Candidate("POST_MEAL_SPIKE", level, meal_ts)>>

RECURSIVE post_meal_spike_loop(_)
post_meal_spike_loop(ms) ==
  IF ms = <<>> THEN <<>>
  ELSE post_meal_spike_for(Head(ms)) \o post_meal_spike_loop(Tail(ms))

rule_post_meal_spike ==
  LET cutoff == now - 6 * 60
      recent == SelectSeq(meals, LAMBDA m : m.timestamp > cutoff)
  IN post_meal_spike_loop(Reverse(OrderByAsc(recent, "timestamp")))

\* rule_sustained_high without the escalation schedule: it fires whenever
\* the glucose condition holds.
rule_sustained_high_unscheduled ==
  LET rows == readings_since(now - 90)
      current == latest_readings(1)
      history == get_alert_history("SUSTAINED_HIGH", 6 * 60, NULL)
  IN IF Len(rows) < 6 THEN <<>>
     ELSE IF current = <<>> THEN <<>>
     ELSE IF SumField(rows, "glucose_mg_dl") <= 200 * Len(rows)
             \/ current[1].glucose_mg_dl <= 180 THEN <<>>
     ELSE <<Candidate("SUSTAINED_HIGH", Len(history), NULL)>>

rule_sustained_high ==
  LET rows == readings_since(now - 90)
      current == latest_readings(1)
      history == get_alert_history("SUSTAINED_HIGH", 6 * 60, NULL)
      esc == should_escalate(history, SCHEDULE_DEFAULT, now)
  IN IF Len(rows) < 6 THEN <<>>
     ELSE IF current = <<>> THEN <<>>
     \* avg_bg <= 200 or current_bg <= 180
     ELSE IF SumField(rows, "glucose_mg_dl") <= 200 * Len(rows)
             \/ current[1].glucose_mg_dl <= 180 THEN <<>>
     ELSE IF ~esc[1] THEN <<>>
     ELSE <<Candidate("SUSTAINED_HIGH", esc[2], NULL)>>

rule_rapid_drop ==
  LET readings == latest_readings(6)
      newest == readings[1]
      oldest == readings[Len(readings)]
      span_min == newest.timestamp - oldest.timestamp
      drop == oldest.glucose_mg_dl - newest.glucose_mg_dl
  IN IF was_recently_alerted("RAPID_DROP", 2 * 60) THEN <<>>
     ELSE IF Len(readings) < 2 THEN <<>>
     ELSE IF span_min < 10 THEN <<>>
     ELSE IF drop > 30 THEN <<Candidate("RAPID_DROP", 0, NULL)>>
     ELSE <<>>

\* The scan of rule_overnight_high over readings in ascending order:
\* high_start is NULL outside a run; returns max_high_duration.
RECURSIVE high_scan(_, _, _, _)
high_scan(readings, i, high_start, max_high_duration) ==
  IF i > Len(readings)
  THEN IF high_start # NULL
       THEN Max(max_high_duration, readings[Len(readings)].timestamp - high_start)
       ELSE max_high_duration
  ELSE LET r == readings[i]
       IN IF r.glucose_mg_dl > 160
          THEN high_scan(readings, i + 1,
                         IF high_start = NULL THEN r.timestamp ELSE high_start,
                         max_high_duration)
          ELSE IF high_start # NULL
          THEN high_scan(readings, i + 1, NULL,
                         Max(max_high_duration, r.timestamp - high_start))
          ELSE high_scan(readings, i + 1, NULL, max_high_duration)

\* rule_overnight_high that runs at every hour of the day.
rule_overnight_high_all_day ==
  LET readings == readings_since(now - 90)
      current == latest_readings(1)
      history == get_alert_history("OVERNIGHT_HIGH", 6 * 60, NULL)
      esc == should_escalate(history, SCHEDULE_DEFAULT, now)
  IN IF Len(readings) < 6 THEN <<>>
     ELSE IF high_scan(readings, 1, NULL, 0) <= 60 THEN <<>>
     ELSE IF current = <<>> THEN <<>>
     ELSE IF current[1].glucose_mg_dl <= 160 THEN <<>>
     ELSE IF ~esc[1] THEN <<>>
     ELSE <<Candidate("OVERNIGHT_HIGH", esc[2], NULL)>>

rule_overnight_high ==
  LET hour == ny_hour(now)
      readings == readings_since(now - 90)
      current == latest_readings(1)
      history == get_alert_history("OVERNIGHT_HIGH", 6 * 60, NULL)
      esc == should_escalate(history, SCHEDULE_DEFAULT, now)
  IN IF 7 <= hour /\ hour < 23 THEN <<>>
     ELSE IF Len(readings) < 6 THEN <<>>
     ELSE IF high_scan(readings, 1, NULL, 0) <= 60 THEN <<>>
     ELSE IF current = <<>> THEN <<>>
     ELSE IF current[1].glucose_mg_dl <= 160 THEN <<>>
     ELSE IF ~esc[1] THEN <<>>
     ELSE <<Candidate("OVERNIGHT_HIGH", esc[2], NULL)>>

\* rule_low_warning without the suppression of a stable or rising value of
\* 80 or more at the first alert (the follow-up re-check is kept).
rule_low_warning_unsuppressed ==
  LET trend == get_bg_trend
      current_bg == trend.current_bg
      rate10 == trend.rate10
      description == trend.description
      iob100 == estimate_iob
      condition_a == 10 * current_bg + rate10 < 800
      condition_b == current_bg < 90 /\ iob100 > 50 /\ rate10 < -50
      condition_c == current_bg < 80
      history == get_alert_history("LOW_WARNING", 2 * 60, NULL)
      esc == should_escalate(history, SCHEDULE_URGENT, now)
      level == esc[2]
  IN IF current_bg = NULL THEN <<>>
     ELSE IF ~(condition_a \/ condition_b \/ condition_c) THEN <<>>
     ELSE IF ~esc[1] THEN <<>>
     ELSE IF level > 0 /\ current_bg >= 80
             /\ description \in {"stable", "rising"} THEN <<>>
     ELSE <<Candidate("LOW_WARNING", level, NULL)>>

\* rule_low_warning whose follow-up re-check looks at the value alone, not
\* at the direction.
rule_low_warning_recheck_bg_only ==
  LET trend == get_bg_trend
      current_bg == trend.current_bg
      rate10 == trend.rate10
      description == trend.description
      iob100 == estimate_iob
      condition_a == 10 * current_bg + rate10 < 800
      condition_b == current_bg < 90 /\ iob100 > 50 /\ rate10 < -50
      condition_c == current_bg < 80
      history == get_alert_history("LOW_WARNING", 2 * 60, NULL)
      esc == should_escalate(history, SCHEDULE_URGENT, now)
      level == esc[2]
  IN IF current_bg = NULL THEN <<>>
     ELSE IF current_bg >= 80 /\ description \in {"stable", "rising"} THEN <<>>
     ELSE IF ~(condition_a \/ condition_b \/ condition_c) THEN <<>>
     ELSE IF ~esc[1] THEN <<>>
     ELSE IF level > 0 /\ current_bg >= 80 THEN <<>>
     ELSE <<Candidate("LOW_WARNING", level, NULL)>>

\* rule_low_warning without the trigger on insulin on board.
rule_low_warning_no_iob ==
  LET trend == get_bg_trend
      current_bg == trend.current_bg
      rate10 == trend.rate10
      description == trend.description
      condition_a == 10 * current_bg + rate10 < 800
      condition_c == current_bg < 80
      history == get_alert_history("LOW_WARNING", 2 * 60, NULL)
      esc == should_escalate(history, SCHEDULE_URGENT, now)
      level == esc[2]
  IN IF current_bg = NULL THEN <<>>
     ELSE IF current_bg >= 80 /\ description \in {"stable", "rising"} THEN <<>>
     ELSE IF ~(condition_a \/ condition_c) THEN <<>>
     ELSE IF ~esc[1] THEN <<>>
     ELSE <<Candidate("LOW_WARNING", level, NULL)>>

rule_low_warning ==
  LET trend == get_bg_trend
      current_bg == trend.current_bg
      rate10 == trend.rate10
      description == trend.description
      iob100 == estimate_iob
      condition_a == 10 * current_bg + rate10 < 800
      condition_b == current_bg < 90 /\ iob100 > 50 /\ rate10 < -50
      condition_c == current_bg < 80
      history == get_alert_history("LOW_WARNING", 2 * 60, NULL)
      esc == should_escalate(history, SCHEDULE_URGENT, now)
      level == esc[2]
  IN IF current_bg = NULL THEN <<>>
     ELSE IF current_bg >= 80 /\ description \in {"stable", "rising"} THEN <<>>
     ELSE IF ~(condition_a \/ condition_b \/ condition_c) THEN <<>>
     ELSE IF ~esc[1] THEN <<>>
     ELSE IF level > 0 /\ current_bg >= 80
             /\ description \in {"stable", "rising"} THEN <<>>
     ELSE <<Candidate("LOW_WARNING", level, NULL)>>

\* rule_fn(conn) for the entry of `rules` named rule_name.
rule_fn(rule_name) ==
  CASE rule_name = "POST_MEAL_SPIKE" -> rule_post_meal_spike
    [] rule_name = "SUSTAINED_HIGH" -> rule_sustained_high
    [] rule_name = "RAPID_DROP" -> rule_rapid_drop
    [] rule_name = "OVERNIGHT_HIGH" -> rule_overnight_high
    [] rule_name = "LOW_WARNING" -> rule_low_warning


\* ------------------------------------------------------------- environment
NightStart == DayLen + 5 * 60            \* 05:00 UTC = midnight in New York

\* The instants explored, as offsets from the initial one: some pair of them
\* is 1, 29, 30, 119 and 120 minutes apart (one minute short of, and exactly,
\* the 30-minute wait and the two-hour cooldown and default snooze).
Offsets == {0, 1, 30, 120}

Reading(ts, bg, trend) ==
  [timestamp |-> ts, glucose_mg_dl |-> bg, trend |-> trend]

\* A reading every 5 minutes over the last 75 minutes, all 210 mg/dL.
HighProfile(s) == [i \in 1..16 |-> Reading(s - 80 + 5 * i, 210, "steady")]
\* 180 -> 145 within 20 minutes.
DropProfile(s) == <<Reading(s - 20, 180, "falling"), Reading(s, 145, "falling")>>

PollInputs == {<<210, "steady">>, <<100, "falling quickly">>}

\* The snooze commands explored: --snooze all, --snooze ALL, and
\* --snooze SUSTAINED_HIGH --snooze-duration 30.
SnoozeCommands ==
  {<<"all", DEFAULT_SNOOZE_DURATION>>, <<"ALL", DEFAULT_SNOOZE_DURATION>>,
   <<"SUSTAINED_HIGH", 30>>}

\* str.upper() on the rule names the command line is given here.
Upper(str) == IF str = "all" THEN "ALL" ELSE str

\* The command lines explored (--snooze-duration defaults to 120).
Args ==
  {[dry_run |-> d, snooze |-> c[1], snooze_duration |-> c[2],
    snooze_status |-> s, unsnooze |-> u] :
     d \in BOOLEAN, s \in BOOLEAN, u \in BOOLEAN,
     c \in SnoozeCommands \cup {<<"", DEFAULT_SNOOZE_DURATION>>}}

\* --snooze SUSTAINED_HIGH given 90 minutes before the initial instant.
EarlierSnooze ==
  [rule_name |-> "SUSTAINED_HIGH", snoozed_at |-> NightStart - 90,
   expires_at |-> NightStart - 90 + DEFAULT_SNOOZE_DURATION]

\* The value of ALERT_PHONE when it is set.
ALERT_PHONE == "+15550100"

NoTrace == [check |-> "none", active |-> FALSE, eval |-> "none", alerts |-> <<>>]

ProcInit ==
  /\ pc = [p \in Procs |-> "idle"]
  /\ args = [p \in Procs |-> [dry_run |-> FALSE]]
  /\ trace = [p \in Procs |-> [r \in RuleNames |-> NoTrace]]
  /\ all_alerts = [p \in Procs |-> <<>>]
  /\ now_iso = [p \in Procs |-> NULL]
  /\ di = [p \in Procs |-> 1]
  /\ sent_count = [p \in Procs |-> 0]
  /\ exit_status = [p \in Procs |-> NULL]

Init ==
  /\ now = NightStart
  /\ t0 = NightStart
  /\ glucose_readings \in {HighProfile(NightStart), DropProfile(NightStart)}
  /\ meals = <<>>
  /\ insulin_doses = <<>>
  /\ alert_log = <<>>
  /\ alert_snoozes \in {<<>>, <<EarlierSnooze>>}
  /\ imsg_log = <<>>
  /\ ProcInit
  /\ PHONE = ALERT_PHONE
  /\ probe = <<>>

\* The clock advances.  main() reads it in the loop over rules and at the
\* stamp only, so time passing during dispatch is time passing after it.
Tick ==
  /\ \A p \in Procs : pc[p] \in {"idle", "stamp"}
  /\ \E d \in Offsets : t0 + d > now /\ now' = t0 + d
  /\ UNCHANGED <<t0, PHONE, storeIn, alert_log, alert_snoozes, imsg_log,
                 procVars, exit_status, probe>>

\* poller.poll(): store the latest reading unless its timestamp is stored.
poll(bg, trend) ==
  /\ \A p \in Procs : pc[p] = "idle"
  /\ Cardinality({i \in 1..Len(glucose_readings) :
        glucose_readings[i].timestamp > t0}) < MaxPolls
  /\ \A i \in 1..Len(glucose_readings) : glucose_readings[i].timestamp # now
  /\ glucose_readings' = Append(glucose_readings, Reading(now, bg, trend))
  /\ UNCHANGED <<now, t0, PHONE, meals, insulin_doses, alert_log, alert_snoozes,
                 imsg_log, procVars, exit_status, probe>>

\* ------------------------------------------------------------------ main()
handle_snooze(rule_name, duration_minutes) ==
  alert_snoozes' = Append(alert_snoozes,
    [rule_name |-> rule_name, snoozed_at |-> now,
     expires_at |-> now + duration_minutes])

\* handle_unsnooze that clears the table, expired rows too.
handle_unsnooze_all ==
  alert_snoozes' = <<>>

handle_unsnooze ==
  alert_snoozes' = SelectSeq(alert_snoozes, LAMBDA s : ~(s.expires_at > now))

\* rule_iteration in which a failed snooze check skips the rule.
rule_iteration_skip_on_error(rule_name, check_raises, rule_raises) ==
  LET active == is_snoozed(rule_name)
      skipped == active \/ check_raises
  IN [check |-> IF check_raises THEN "raised"
                ELSE IF active THEN "snoozed" ELSE "clear",
      active |-> active,
      eval |-> IF skipped THEN "none"
               ELSE IF rule_raises THEN "error" ELSE "ok",
      alerts |-> IF skipped \/ rule_raises THEN <<>> ELSE rule_fn(rule_name)]

\* One iteration of the loop over rules (lines 1026-1046): what it records
\* for the rule.  check_raises: the snooze check raises; rule_raises:
\* rule_fn raises.
rule_iteration(rule_name, check_raises, rule_raises) ==
  LET active == is_snoozed(rule_name)
      skipped == active /\ ~check_raises
  IN [check |-> IF check_raises THEN "raised"
                ELSE IF active THEN "snoozed" ELSE "clear",
      active |-> active,
      eval |-> IF skipped THEN "none"
               ELSE IF rule_raises THEN "error" ELSE "ok",
      alerts |-> IF skipped \/ rule_raises THEN <<>> ELSE rule_fn(rule_name)]

\* collect in which an evaluator's exception ends the loop over rules.
RECURSIVE collect_until_error(_, _)
collect_until_error(tr, i) ==
  IF i > Len(rules) \/ tr[rules[i]].eval = "error" THEN <<>>
  ELSE tr[rules[i]].alerts \o collect_until_error(tr, i + 1)

\* all_alerts after the loop has run over rules[i..].
RECURSIVE collect(_, _)
collect(tr, i) ==
  IF i > Len(rules) THEN <<>> ELSE tr[rules[i]].alerts \o collect(tr, i + 1)

FaultSets ==
  {fs \in (SUBSET RuleNames) \X (SUBSET RuleNames) :
     Cardinality(fs[1]) + Cardinality(fs[2]) <= MaxFaults}

\* main() from argument parsing to the end of the loop over rules (lines
\* 980-1046); the three snooze commands run to their return here.  fs names
\* the rules whose snooze check (fs[1]) and whose evaluator (fs[2]) raise.
main_entry(p, a, fs) ==
  /\ pc[p] = "idle"
  /\ IF a.snooze # ""
     THEN /\ Len(alert_snoozes) < MaxSnoozes
          /\ handle_snooze(Upper(a.snooze), a.snooze_duration)
          /\ UNCHANGED procVars
     ELSE IF a.snooze_status
     THEN UNCHANGED <<alert_snoozes, procVars>>
     ELSE IF a.unsnooze
     THEN handle_unsnooze /\ UNCHANGED procVars
     ELSE LET tr == [r \in RuleNames |->
                       rule_iteration(r, r \in fs[1], r \in fs[2])]
          IN /\ \A r \in fs[2] : tr[r].eval = "error"
             /\ trace' = [trace EXCEPT ![p] = tr]
             /\ all_alerts' = [all_alerts EXCEPT ![p] = collect(tr, 1)]
             /\ pc' = [pc EXCEPT ![p] = "stamp"]
             /\ args' = [args EXCEPT ![p] = [dry_run |-> a.dry_run]]
             /\ UNCHANGED <<alert_snoozes, now_iso, di, sent_count>>
  /\ exit_status' = IF a.snooze # "" \/ a.snooze_status \/ a.unsnooze
                    THEN [exit_status EXCEPT ![p] = 0]
                    ELSE exit_status
  /\ UNCHANGED <<now, t0, PHONE, storeIn, alert_log, imsg_log, probe>>

\* get_db() or ensure_tables() raises (lines 994-995): nothing catches it
\* and the interpreter ends the process with status 1.
main_store_unavailable(p) ==
  /\ pc[p] = "idle"
  /\ exit_status' = [exit_status EXCEPT ![p] = 1]
  /\ UNCHANGED <<now, t0, PHONE, storeIn, alert_log, alert_snoozes, imsg_log,
                 procVars, probe>>

\* Faults injected into process p's invocation so far.
Faults(p) ==
  Cardinality({r \in RuleNames : trace[p][r].check = "raised"})
  + Cardinality({r \in RuleNames : trace[p][r].eval = "error"})
  + Cardinality({i \in 1..Len(alert_log) :
       alert_log[i].triggered_at = now_iso[p] /\ alert_log[i].sent = 0})

\* Lines 1048-1050: the loop is over, the stamp of this run's rows is taken.
stamp(p) ==
  /\ pc[p] = "stamp"
  /\ now_iso' = [now_iso EXCEPT ![p] = now]
  /\ pc' = [pc EXCEPT ![p] = "dispatch"]
  /\ UNCHANGED <<now, t0, PHONE, storeIn, alert_log, alert_snoozes, imsg_log,
                 args, trace, all_alerts, di, sent_count, exit_status, probe>>

AlertRow(alert, triggered_at, sent) ==
  [rule_name |-> alert.rule, triggered_at |-> triggered_at,
   message |-> alert.level, sent |-> sent, dedup_key |-> alert.dedup_key]

\* dispatch_step in which a failed send ends the loop with no row written.
dispatch_step_send_aborts(p, send_ok) ==
  /\ pc[p] = "dispatch"
  /\ di[p] <= Len(all_alerts[p])
  /\ LET alert == all_alerts[p][di[p]]
     IN IF args[p].dry_run
        THEN /\ send_ok
             /\ sent_count' = [sent_count EXCEPT ![p] = @ + 1]
             /\ di' = [di EXCEPT ![p] = @ + 1]
             /\ UNCHANGED <<alert_log, imsg_log>>
        ELSE /\ Len(alert_log) < MaxLog
             /\ imsg_log' = Append(imsg_log, IF send_ok THEN "ok" ELSE "raised")
             /\ IF send_ok
                THEN /\ alert_log' = Append(alert_log, AlertRow(alert, now_iso[p], 1))
                     /\ sent_count' = [sent_count EXCEPT ![p] = @ + 1]
                     /\ di' = [di EXCEPT ![p] = @ + 1]
                ELSE /\ di' = [di EXCEPT ![p] = Len(all_alerts[p]) + 1]
                     /\ UNCHANGED <<alert_log, sent_count>>
  /\ UNCHANGED <<now, t0, PHONE, storeIn, alert_snoozes, pc, args, trace,
                 all_alerts, now_iso, exit_status, probe>>

\* dispatch_step that keeps one row per rule: a rule's earlier row is
\* replaced by the new one.
dispatch_step_replaces(p, send_ok) ==
  /\ pc[p] = "dispatch"
  /\ di[p] <= Len(all_alerts[p])
  /\ LET alert == all_alerts[p][di[p]]
         row == AlertRow(alert, now_iso[p], IF send_ok THEN 1 ELSE 0)
     IN IF args[p].dry_run
        THEN /\ send_ok
             /\ sent_count' = [sent_count EXCEPT ![p] = @ + 1]
             /\ UNCHANGED <<alert_log, imsg_log>>
        ELSE /\ Len(alert_log) < MaxLog
             /\ imsg_log' = Append(imsg_log, IF send_ok THEN "ok" ELSE "raised")
             /\ alert_log' = Append(
                  SelectSeq(alert_log, LAMBDA a : a.rule_name # alert.rule), row)
             /\ sent_count' = [sent_count EXCEPT ![p] = IF send_ok THEN @ + 1 ELSE @]
  /\ di' = [di EXCEPT ![p] = @ + 1]
  /\ UNCHANGED <<now, t0, PHONE, storeIn, alert_snoozes, pc, args, trace,
                 all_alerts, now_iso, exit_status, probe>>

\* dispatch_step that sends and logs in a dry run too.
dispatch_step_always(p, send_ok) ==
  /\ pc[p] = "dispatch"
  /\ di[p] <= Len(all_alerts[p])
  /\ Len(alert_log) < MaxLog
  /\ send_ok
  /\ imsg_log' = Append(imsg_log, "ok")
  /\ alert_log' = Append(alert_log,
       AlertRow(all_alerts[p][di[p]], now_iso[p], 1))
  /\ sent_count' = [sent_count EXCEPT ![p] = @ + 1]
  /\ di' = [di EXCEPT ![p] = @ + 1]
  /\ UNCHANGED <<now, t0, PHONE, storeIn, alert_snoozes, pc, args, trace,
                 all_alerts, now_iso, exit_status, probe>>

\* dispatch_step that leaves its row in an open transaction: nothing is
\* committed while the loop runs.
dispatch_step_uncommitted(p, send_ok) ==
  /\ pc[p] = "dispatch"
  /\ di[p] <= Len(all_alerts[p])
  /\ IF args[p].dry_run
     THEN /\ send_ok
          /\ sent_count' = [sent_count EXCEPT ![p] = @ + 1]
          /\ UNCHANGED imsg_log
     ELSE /\ Len(imsg_log) < MaxLog
          /\ imsg_log' = Append(imsg_log, IF send_ok THEN "ok" ELSE "raised")
          /\ sent_count' = [sent_count EXCEPT ![p] = IF send_ok THEN @ + 1 ELSE @]
  /\ di' = [di EXCEPT ![p] = @ + 1]
  /\ UNCHANGED <<now, t0, PHONE, storeIn, alert_log, alert_snoozes, pc, args,
                 trace, all_alerts, now_iso, exit_status, probe>>

\* dispatch_step that reads the rule's history again before it sends, and
\* drops the candidate when a row has been written since it was computed.
dispatch_step_rechecks(p, send_ok) ==
  /\ pc[p] = "dispatch"
  /\ di[p] <= Len(all_alerts[p])
  /\ LET alert == all_alerts[p][di[p]]
         taken == \E i \in 1..Len(alert_log) :
                    /\ alert_log[i].rule_name = alert.rule
                    /\ alert_log[i].dedup_key = alert.dedup_key
                    /\ alert_log[i].message = alert.level
     IN IF args[p].dry_run \/ taken
        THEN /\ send_ok
             /\ sent_count' = [sent_count EXCEPT ![p] = IF taken THEN @ ELSE @ + 1]
             /\ UNCHANGED <<alert_log, imsg_log>>
        ELSE /\ Len(alert_log) < MaxLog
             /\ imsg_log' = Append(imsg_log, IF send_ok THEN "ok" ELSE "raised")
             /\ alert_log' = Append(alert_log,
                  AlertRow(alert, now_iso[p], IF send_ok THEN 1 ELSE 0))
             /\ sent_count' = [sent_count EXCEPT ![p] = IF send_ok THEN @ + 1 ELSE @]
  /\ di' = [di EXCEPT ![p] = @ + 1]
  /\ UNCHANGED <<now, t0, PHONE, storeIn, alert_snoozes, pc, args, trace,
                 all_alerts, now_iso, exit_status, probe>>

\* One iteration of the loop over all_alerts (lines 1052-1077).  send_ok:
\* send_imsg returns; otherwise it raises, as it always does when PHONE is
\* empty (line 415).
dispatch_step(p, send_ok) ==
  /\ pc[p] = "dispatch"
  /\ di[p] <= Len(all_alerts[p])
  /\ LET alert == all_alerts[p][di[p]]
     IN IF args[p].dry_run
        THEN /\ send_ok
             /\ sent_count' = [sent_count EXCEPT ![p] = @ + 1]
             /\ UNCHANGED <<alert_log, imsg_log>>
        ELSE /\ Len(alert_log) < MaxLog
             /\ (PHONE = "" => ~send_ok)
             /\ ((~send_ok /\ PHONE # "") => Faults(p) < MaxFaults)
             /\ imsg_log' = Append(imsg_log, IF send_ok THEN "ok" ELSE "raised")
             /\ alert_log' = Append(alert_log,
                  AlertRow(alert, now_iso[p], IF send_ok THEN 1 ELSE 0))
             /\ sent_count' = [sent_count EXCEPT ![p] = IF send_ok THEN @ + 1 ELSE @]
  /\ di' = [di EXCEPT ![p] = @ + 1]
  /\ UNCHANGED <<now, t0, PHONE, storeIn, alert_snoozes, pc, args, trace,
                 all_alerts, now_iso, exit_status, probe>>

\* Lines 1079-1083: summary, conn.close(), return.
finish(p) ==
  /\ pc[p] = "dispatch"
  /\ di[p] > Len(all_alerts[p])
  /\ pc' = [pc EXCEPT ![p] = "idle"]
  /\ args' = [args EXCEPT ![p] = [dry_run |-> FALSE]]
  /\ trace' = [trace EXCEPT ![p] = [r \in RuleNames |-> NoTrace]]
  /\ all_alerts' = [all_alerts EXCEPT ![p] = <<>>]
  /\ now_iso' = [now_iso EXCEPT ![p] = NULL]
  /\ di' = [di EXCEPT ![p] = 1]
  /\ sent_count' = [sent_count EXCEPT ![p] = 0]
  /\ exit_status' = [exit_status EXCEPT ![p] = 0]
  /\ UNCHANGED <<now, t0, PHONE, storeIn, alert_log, alert_snoozes, imsg_log,
                 probe>>

\* The status of a process ended by SIGKILL.
SIGKILL_STATUS == 128 + 9

\* The process is killed between the stamp and the end of the dispatch loop
\* (lines 1050-1077): what it held in memory is gone, what it committed
\* stays.  send_done: it dies after send_imsg returned for the candidate at
\* hand and before that candidate's row is committed.
kill(p, send_done) ==
  /\ pc[p] = "dispatch"
  /\ send_done => (di[p] <= Len(all_alerts[p]) /\ ~args[p].dry_run
                    /\ PHONE # "" /\ Len(imsg_log) < MaxLog)
  /\ imsg_log' = IF send_done THEN Append(imsg_log, "ok") ELSE imsg_log
  /\ pc' = [pc EXCEPT ![p] = "idle"]
  /\ args' = [args EXCEPT ![p] = [dry_run |-> FALSE]]
  /\ trace' = [trace EXCEPT ![p] = [r \in RuleNames |-> NoTrace]]
  /\ all_alerts' = [all_alerts EXCEPT ![p] = <<>>]
  /\ now_iso' = [now_iso EXCEPT ![p] = NULL]
  /\ di' = [di EXCEPT ![p] = 1]
  /\ sent_count' = [sent_count EXCEPT ![p] = 0]
  /\ exit_status' = [exit_status EXCEPT ![p] = SIGKILL_STATUS]
  /\ UNCHANGED <<now, t0, PHONE, storeIn, alert_log, alert_snoozes, probe>>

\* The command lines that reach the loop over rules.
RunArgs == {a \in Args : a.snooze = "" /\ ~a.snooze_status /\ ~a.unsnooze}
NoFaults == <<{}, {}>>

\* Serialized invocations (only process 1 ever runs) in which evaluators
\* and sends may fail.
Next ==
  \/ Tick
  \/ \E a \in RunArgs, fs \in {f \in FaultSets : f[1] = {}} : main_entry(1, a, fs)
  \/ stamp(1)
  \/ \E ok \in BOOLEAN : dispatch_step(1, ok)
  \/ finish(1)

Spec == Init /\ [][Next]_vars

\* Serialized invocations with the snooze commands; snooze checks and
\* evaluators may fail.
InitSnooze ==
  Init /\ glucose_readings = HighProfile(NightStart) /\ alert_snoozes = <<>>

NextSnooze ==
  \/ Tick
  \/ \E a \in Args \ RunArgs : main_entry(1, a, NoFaults)
  \/ \E a \in RunArgs, fs \in FaultSets : main_entry(1, a, fs)
  \/ stamp(1)
  \/ dispatch_step(1, TRUE)
  \/ finish(1)

SpecSnooze == InitSnooze /\ [][NextSnooze]_vars

\* Serialized invocations while the poller stores new readings.
InitPoll ==
  Init /\ alert_snoozes = <<>>

NextPoll ==
  \/ Tick
  \/ \E v \in PollInputs : poll(v[1], v[2])
  \/ \E a \in RunArgs : main_entry(1, a, NoFaults)
  \/ stamp(1)
  \/ dispatch_step(1, TRUE)
  \/ finish(1)

SpecPoll == InitPoll /\ [][NextPoll]_vars


\* -------------------------------------------- should_escalate as a function
\* The waits and instants explored: a record 0, 30 or 60 minutes into the
\* hour, the decision taken 60 to 120 minutes into it.
Waits == {0, 30, 60}
HistoryInstants == {0, 30, 60}
DecisionInstants == {60, 61, 89, 90, 119, 120}

\* What get_alert_history returns: rows in ascending order of triggered_at.
Histories ==
  UNION {{[i \in 1..n |-> [triggered_at |-> h[i], message |-> i - 1,
                           dedup_key |-> NULL]] :
            h \in {g \in [1..n -> HistoryInstants] :
                     \A i \in 1..(n - 1) : g[i] <= g[i + 1]}} :
         n \in 0..MaxHist}

Schedules ==
  {SCHEDULE_DEFAULT, SCHEDULE_URGENT}
    \cup UNION {[1..n -> Waits] : n \in 1..MaxSchedule}

InitEscalate ==
  /\ now = NightStart
  /\ t0 = NightStart
  /\ glucose_readings = <<>>
  /\ meals = <<>>
  /\ insulin_doses = <<>>
  /\ alert_log = <<>>
  /\ alert_snoozes = <<>>
  /\ imsg_log = <<>>
  /\ ProcInit
  /\ PHONE = ALERT_PHONE
  /\ probe \in [alert_history : Histories, schedule : Schedules,
                 t : DecisionInstants, out : {<<>>}]

call_should_escalate ==
  /\ probe.out = <<>>
  /\ probe' = [probe EXCEPT !.out =
                 should_escalate(probe.alert_history, probe.schedule, probe.t)]
  /\ UNCHANGED <<now, t0, PHONE, storeIn, alert_log, alert_snoozes, imsg_log, procVars,
                 exit_status>>

NextEscalate == call_should_escalate

SpecEscalate == InitEscalate /\ [][NextEscalate]_vars

\* ------------------------------------ the trend and the low-warning rule
\* Stores on which get_bg_trend and rule_low_warning are applied on their
\* own: up to MaxReadings readings five minutes apart, the newest one now,
\* whose newest label is one of the seven, empty or unknown to the table.
BgValues == {78, 82, 85, 88, 95}
TrendInputs == TREND_LABELS \cup {"", "unknown"}

\* Minutes between two stored readings: the sensor's five, or seven after a
\* late upload.
ReadingGaps == {5, 7}

ReadingStores ==
  UNION {{[i \in 1..n |->
             Reading(NightStart - g * (n - i), v[i],
                     IF i = n THEN l ELSE "steady")] :
            v \in [1..n -> BgValues], l \in TrendInputs, g \in ReadingGaps} :
         n \in 0..MaxReadings}

Dose(ts, units100, type) == [timestamp |-> ts, units100 |-> units100, type |-> type]

\* No alert yet, or one LOW_WARNING alert 5 or 15 minutes ago.
LowWarningLogs ==
  {<<>>} \cup
  {<<[rule_name |-> "LOW_WARNING", triggered_at |-> NightStart - d,
      message |-> 0, sent |-> 1, dedup_key |-> NULL]>> : d \in {5, 15}}

NoProbe == [fn |-> "none", out |-> <<>>]

InitTrend ==
  /\ now = NightStart
  /\ t0 = NightStart
  /\ glucose_readings \in ReadingStores
  /\ meals = <<>>
  /\ insulin_doses \in {<<>>, <<Dose(NightStart - 30, 200, "correction")>>}
  /\ alert_log \in LowWarningLogs
  /\ alert_snoozes = <<>>
  /\ imsg_log = <<>>
  /\ ProcInit
  /\ PHONE = ALERT_PHONE
  /\ probe = NoProbe

call_get_bg_trend ==
  /\ probe = NoProbe
  /\ probe' = [fn |-> "get_bg_trend", out |-> get_bg_trend]
  /\ UNCHANGED <<now, t0, PHONE, storeIn, alert_log, alert_snoozes, imsg_log, procVars,
                 exit_status>>

call_rule_low_warning ==
  /\ probe = NoProbe
  /\ probe' = [fn |-> "rule_low_warning", out |-> rule_low_warning]
  /\ UNCHANGED <<now, t0, PHONE, storeIn, alert_log, alert_snoozes, imsg_log, procVars,
                 exit_status>>

NextTrend == call_get_bg_trend \/ call_rule_low_warning

SpecTrend == InitTrend /\ [][NextTrend]_vars

\* ------------------------------------------------- escalation histories
\* Three stores in which the escalating rules have something to say, and
\* the alert rows earlier invocations may have left in alert_log.
\* Evening: two meals at 22:00 and 22:30 UTC, a reading of 100 before them
\* and 210 from 23:15 on, evaluated at 00:30 UTC.
\* Night: HighProfile at midnight in New York.
\* Low: 85 then 78, falling.
Evening == 2 * DayLen + 30
Meal(ts) == [timestamp |-> ts, carbs_g |-> 40]
Meal1 == Evening - 150
Meal2 == Evening - 120

EveningReadings ==
  <<Reading(Meal1 - 10, 100, "steady")>>
    \o [i \in 1..8 |-> Reading(Evening - 85 + 10 * i, 210, "steady")]

PMS1 == <<"POST_MEAL_SPIKE", Meal1>>
PMS2 == <<"POST_MEAL_SPIKE", Meal2>>
SH == <<"SUSTAINED_HIGH", NULL>>
OH == <<"OVERNIGHT_HIGH", NULL>>
LW == <<"LOW_WARNING", NULL>>

\* keys: the rule and key of the rows earlier invocations wrote there.
Scenarios ==
  {[at |-> Evening, readings |-> EveningReadings,
    meals |-> <<Meal(Meal1), Meal(Meal2)>>, keys |-> {PMS1, PMS2, SH}],
   [at |-> NightStart, readings |-> HighProfile(NightStart), meals |-> <<>>,
    keys |-> {SH, OH}],
   [at |-> NightStart,
    readings |-> <<Reading(NightStart - 5, 85, "falling"),
                   Reading(NightStart, 78, "falling")>>,
    meals |-> <<>>, keys |-> {LW, SH}]}

\* How long ago the rows were written.
RowAges == {300, 40, 10}

InitEpisode ==
  /\ \E sc \in Scenarios :
       /\ now = sc.at
       /\ t0 = sc.at
       /\ glucose_readings = sc.readings
       /\ meals = sc.meals
  /\ insulin_doses = <<>>
  /\ alert_log = <<>>
  /\ alert_snoozes = <<>>
  /\ imsg_log = <<>>
  /\ ProcInit
  /\ PHONE = ALERT_PHONE
  /\ probe = [before |-> <<>>, row |-> <<>>]

\* What every rule returns on the store as it is.
Decisions == [r \in RuleNames |-> rule_fn(r)]

\* An earlier invocation's dispatch left this row (lines 1062-1077): rows
\* come in the order of their stamps, sent or not.  probe keeps the row and
\* what the rules returned without it.
log_alert(k, age, sent) ==
  /\ Len(alert_log) < MaxRows
  /\ \E sc \in Scenarios :
       sc.at = now /\ sc.readings = glucose_readings /\ k \in sc.keys
  /\ \A i \in 1..Len(alert_log) : alert_log[i].triggered_at <= now - age
  /\ alert_log' = Append(alert_log,
       [rule_name |-> k[1], triggered_at |-> now - age,
        message |-> Len(SelectSeq(alert_log, LAMBDA a :
                      a.rule_name = k[1] /\ a.dedup_key = k[2])),
        sent |-> sent, dedup_key |-> k[2]])
  /\ probe' = [before |-> Decisions,
               row |-> [rule_name |-> k[1], dedup_key |-> k[2]]]
  /\ UNCHANGED <<now, t0, PHONE, storeIn, alert_snoozes, imsg_log, procVars,
                 exit_status>>

NextEpisode ==
  \E k \in {PMS1, PMS2, SH, OH, LW}, age \in RowAges, sent \in {0, 1} : log_alert(k, age, sent)

SpecEpisode == InitEpisode /\ [][NextEpisode]_vars

\* ------------------------------------------------------ clearing snoozes
\* Snooze tables with at least one active row: rows for ALL or one rule that
\* expired ten minutes ago, expire now, in 30 or in 120 minutes, on which
\* the snooze commands are run.
SnoozeRows ==
  {[rule_name |-> n, snoozed_at |-> NightStart + e - DEFAULT_SNOOZE_DURATION,
    expires_at |-> NightStart + e] :
     n \in {"ALL", "SUSTAINED_HIGH", "LOW_WARNING"}, e \in {-10, 0, 30, 120}}

SnoozeTables ==
  {tb \in UNION {[1..n -> SnoozeRows] : n \in 1..MaxSnoozeRows} :
     \E i \in 1..Len(tb) : tb[i].expires_at > NightStart}

InitUnsnooze ==
  /\ now = NightStart
  /\ t0 = NightStart
  /\ glucose_readings = HighProfile(NightStart)
  /\ meals = <<>>
  /\ insulin_doses = <<>>
  /\ alert_log \in {<<>>,
       <<[rule_name |-> "SUSTAINED_HIGH", triggered_at |-> NightStart - 10,
          message |-> 0, sent |-> 1, dedup_key |-> NULL]>>}
  /\ alert_snoozes \in SnoozeTables
  /\ imsg_log = <<>>
  /\ ProcInit
  /\ PHONE = ALERT_PHONE
  /\ probe = <<>>

NextUnsnooze == \E a \in Args \ RunArgs : main_entry(1, a, NoFaults)

SpecUnsnooze == InitUnsnooze /\ [][NextUnsnooze]_vars

\* ----------------------------------------------------- --snooze-duration
\* Values of --snooze-duration: argparse reads it with type=int, so zero and
\* negative numbers are accepted as well.
SnoozeDurations == {-60, -1, 0, 1, 30, DEFAULT_SNOOZE_DURATION}

\* The command lines --snooze RULE --snooze-duration N.
DurationArgs ==
  {[dry_run |-> FALSE, snooze |-> n, snooze_duration |-> d,
    snooze_status |-> FALSE, unsnooze |-> FALSE] :
     n \in {"all", "SUSTAINED_HIGH", "LOW_WARNING"}, d \in SnoozeDurations}

\* The snooze table starts empty: every row is one --snooze has created.
NextSnoozeCmd ==
  \/ Tick
  \/ \E a \in DurationArgs : main_entry(1, a, NoFaults)

SpecSnoozeCmd == InitSnooze /\ [][NextSnoozeCmd]_vars

\* ------------------------------------------------ overlapping invocations
\* Two invocations started by the external scheduler with nothing keeping
\* the second from starting before the first has returned: their steps
\* interleave freely.
NextOverlap ==
  \/ Tick
  \/ \E p \in Procs, a \in RunArgs : main_entry(p, a, NoFaults)
  \/ \E p \in Procs : stamp(p)
  \/ \E p \in Procs, ok \in BOOLEAN : dispatch_step(p, ok)
  \/ \E p \in Procs : finish(p)

SpecOverlap == InitSnooze /\ [][NextOverlap]_vars

\* ------------------------------------------------------- insulin on board
\* Dose tables: doses of the four types given now, 45, 90, 179, 180 or 200
\* minutes ago (imported doses carry the time they were given), in any
\* order, on which estimate_iob is called.
DoseAges == {0, 45, 90, 179, 180, 200}

DoseTables ==
  UNION {[1..n -> {Dose(NightStart - e, u, ty) :
                     e \in DoseAges, u \in {125, 200},
                     ty \in {"bolus", "correction", "basal", "meal"}}] :
           n \in 0..MaxDoses}

InitIob ==
  /\ now = NightStart
  /\ t0 = NightStart
  /\ glucose_readings = <<>>
  /\ meals = <<>>
  /\ insulin_doses \in DoseTables
  /\ alert_log = <<>>
  /\ alert_snoozes = <<>>
  /\ imsg_log = <<>>
  /\ ProcInit
  /\ PHONE = ALERT_PHONE
  /\ probe = [fn |-> "none", out |-> 0]

call_estimate_iob ==
  /\ probe.fn = "none"
  /\ probe' = [fn |-> "estimate_iob", out |-> estimate_iob]
  /\ UNCHANGED <<now, t0, PHONE, storeIn, alert_log, alert_snoozes, imsg_log, procVars,
                 exit_status>>

NextIob == call_estimate_iob

SpecIob == InitIob /\ [][NextIob]_vars

\* ------------------------------------------------------------ exit status
\* Invocations with ALERT_PHONE set or not, and with a store that may fail
\* to open.
InitExit ==
  /\ now = NightStart
  /\ t0 = NightStart
  /\ glucose_readings \in {HighProfile(NightStart), DropProfile(NightStart)}
  /\ meals = <<>>
  /\ insulin_doses = <<>>
  /\ alert_log = <<>>
  /\ alert_snoozes = <<>>
  /\ imsg_log = <<>>
  /\ ProcInit
  /\ PHONE \in {"", ALERT_PHONE}
  /\ probe = <<>>

NextExit ==
  \/ Tick
  \/ main_store_unavailable(1)
  \/ \E a \in Args \ RunArgs : main_entry(1, a, NoFaults)
  \/ \E a \in RunArgs, fs \in {f \in FaultSets : f[1] = {}} : main_entry(1, a, fs)
  \/ stamp(1)
  \/ \E ok \in BOOLEAN : dispatch_step(1, ok)
  \/ finish(1)

SpecExit == InitExit /\ [][NextExit]_vars

\* ------------------------------------------------------- post-meal spike
\* One meal 125 minutes ago, eaten at noon or at 22:30 UTC, and readings
\* taken (or not) four hours and 15 minutes before it, 60 minutes after it
\* and now; no alert yet.
MealTimes == {2 * DayLen + 12 * 60, 2 * DayLen + 22 * 60 + 30}
MealReadingOffsets == <<-240, -15, 60, 125>>
MealReadingValues == {100, 170, 250}

\* The readings picked by v: slot i holds the value v[i], or nothing at 0.
MealReadings(meal_ts, v) ==
  LET taken == SelectSeq(<<1, 2, 3, 4>>, LAMBDA i : v[i] # 0)
  IN [k \in 1..Len(taken) |->
        Reading(meal_ts + MealReadingOffsets[taken[k]], v[taken[k]], "steady")]

InitMeal ==
  /\ \E m \in MealTimes, v \in [1..4 -> MealReadingValues \cup {0}] :
       /\ now = m + 125
       /\ t0 = m + 125
       /\ meals = <<Meal(m)>>
       /\ glucose_readings = MealReadings(m, v)
  /\ insulin_doses = <<>>
  /\ alert_log = <<>>
  /\ alert_snoozes = <<>>
  /\ imsg_log = <<>>
  /\ ProcInit
  /\ PHONE = ALERT_PHONE
  /\ probe = [fn |-> "none", out |-> <<>>]

call_rule_post_meal_spike ==
  /\ probe.fn = "none"
  /\ probe' = [fn |-> "rule_post_meal_spike", out |-> rule_post_meal_spike]
  /\ UNCHANGED <<now, t0, PHONE, storeIn, alert_log, alert_snoozes, imsg_log,
                 procVars, exit_status>>

NextMeal == call_rule_post_meal_spike

SpecMeal == InitMeal /\ [][NextMeal]_vars

\* ----------------------------------------------------------- overnight high
\* Invocations at 00:00, 06:59, 07:00 and 23:00 New York time, on stores
\* that hold, at each of eight instants 12 minutes apart up to now, a
\* reading of 150, one of 170, or none; no OVERNIGHT_HIGH record yet, or one
\* written 10 minutes ago.
OvernightTimes ==
  {NightStart, NightStart + 6 * 60 + 59, NightStart + 7 * 60, NightStart + 23 * 60}

OvernightSlots == 8

OvernightReadings(t, v) ==
  LET taken == SelectSeq([i \in 1..OvernightSlots |-> i], LAMBDA i : v[i] # 0)
  IN [k \in 1..Len(taken) |->
        Reading(t - 12 * (OvernightSlots - taken[k]), v[taken[k]], "steady")]

InitOvernight ==
  /\ \E t \in OvernightTimes, v \in [1..OvernightSlots -> {0, 150, 170}] :
       /\ now = t
       /\ t0 = t
       /\ glucose_readings = OvernightReadings(t, v)
       /\ alert_log \in {<<>>,
            <<[rule_name |-> "OVERNIGHT_HIGH", triggered_at |-> t - 10,
               message |-> 0, sent |-> 1, dedup_key |-> NULL]>>}
  /\ meals = <<>>
  /\ insulin_doses = <<>>
  /\ alert_snoozes = <<>>
  /\ imsg_log = <<>>
  /\ ProcInit
  /\ PHONE = ALERT_PHONE
  /\ probe = [fn |-> "none", out |-> <<>>]

call_rule_overnight_high ==
  /\ probe.fn = "none"
  /\ probe' = [fn |-> "rule_overnight_high", out |-> rule_overnight_high]
  /\ UNCHANGED <<now, t0, PHONE, storeIn, alert_log, alert_snoozes, imsg_log,
                 procVars, exit_status>>

NextOvernight == call_rule_overnight_high

SpecOvernight == InitOvernight /\ [][NextOvernight]_vars

\* ------------------------------------------------- interrupted dispatch
\* Serialized invocations that may be killed while they dispatch.
NextInterrupt ==
  \/ Tick
  \/ \E a \in RunArgs : main_entry(1, a, NoFaults)
  \/ stamp(1)
  \/ \E ok \in BOOLEAN : dispatch_step(1, ok)
  \/ finish(1)
  \/ \E send_done \in BOOLEAN : kill(1, send_done)

SpecInterrupt == InitSnooze /\ [][NextInterrupt]_vars

\* ------------------------------------------------------ restarted process
\* What earlier invocations left in alert_log: nothing, a SUSTAINED_HIGH
\* record 30 or 29 minutes old, or one from before the six-hour window.
RestartLogs ==
  {<<>>} \cup
  {<<AlertRow(Candidate("SUSTAINED_HIGH", 0, NULL), NightStart - age, 1)>> :
     age \in {30, 29, 6 * 60 + 40}}

InitRestart ==
  /\ now = NightStart
  /\ t0 = NightStart
  /\ glucose_readings = HighProfile(NightStart)
  /\ meals = <<>>
  /\ insulin_doses = <<>>
  /\ alert_log \in RestartLogs
  /\ alert_snoozes = <<>>
  /\ imsg_log = <<>>
  /\ ProcInit
  /\ PHONE = ALERT_PHONE
  /\ probe = <<>>

\* Two processes run invocations over the same store; process 1 may be
\* killed while it dispatches and started again, process 2 runs live
\* invocations to their end.
NextRestart ==
  \/ Tick
  \/ \E p \in Procs : \E a \in {b \in RunArgs : p = 2 => ~b.dry_run} :
       main_entry(p, a, NoFaults)
  \/ \E p \in Procs : stamp(p)
  \/ \E p \in Procs : dispatch_step(p, TRUE)
  \/ \E p \in Procs : finish(p)
  \/ kill(1, FALSE)

SpecRestart == InitRestart /\ [][NextRestart]_vars

\* ------------------------------------------------- gaps between records
\* 85 then 78 mg/dL, falling: the LOW_WARNING condition.
LowProfile(s) == <<Reading(s - 5, 85, "falling"), Reading(s, 78, "falling")>>

\* How long before the first instant the newest record of a rule was written.
GapAges == {14, 15, 29, 30}

\* What earlier invocations left in alert_log: nothing, or one record of a
\* non-keyed escalating rule.
GapLogs ==
  {<<>>} \cup
  {<<AlertRow(Candidate(r, 0, NULL), NightStart - age, 1)>> :
     r \in {"SUSTAINED_HIGH", "OVERNIGHT_HIGH", "LOW_WARNING"}, age \in GapAges}

InitGap ==
  /\ now = NightStart
  /\ t0 = NightStart
  /\ glucose_readings \in {HighProfile(NightStart), LowProfile(NightStart)}
  /\ meals = <<>>
  /\ insulin_doses = <<>>
  /\ alert_log \in GapLogs
  /\ alert_snoozes = <<>>
  /\ imsg_log = <<>>
  /\ ProcInit
  /\ PHONE = ALERT_PHONE
  /\ probe = <<>>

\* Serialized invocations; sends may fail.
NextGap ==
  \/ Tick
  \/ \E a \in RunArgs : main_entry(1, a, NoFaults)
  \/ stamp(1)
  \/ \E ok \in BOOLEAN : dispatch_step(1, ok)
  \/ finish(1)

SpecGap == InitGap /\ [][NextGap]_vars

\* --------------------------------------------------- meals sharing a time
\* The meals table holds one or two rows of the evening's meals; nothing in
\* the schema keeps two rows from carrying the same timestamp.
MealTables ==
  {<<Meal(a)>> : a \in {Meal1, Meal2}}
    \cup {<<Meal(a), Meal(b)>> : a, b \in {Meal1, Meal2}}

InitMealKeys ==
  /\ now = Evening
  /\ t0 = Evening
  /\ glucose_readings = EveningReadings
  /\ meals \in MealTables
  /\ insulin_doses = <<>>
  /\ alert_log = <<>>
  /\ alert_snoozes = <<>>
  /\ imsg_log = <<>>
  /\ ProcInit
  /\ PHONE = ALERT_PHONE
  /\ probe = <<>>

\* Serialized invocations; sends may fail.
NextMealKeys ==
  \/ Tick
  \/ \E a \in RunArgs : main_entry(1, a, NoFaults)
  \/ stamp(1)
  \/ \E ok \in BOOLEAN : dispatch_step(1, ok)
  \/ finish(1)

SpecMealKeys == InitMealKeys /\ [][NextMealKeys]_vars

\* ----------------------------------------------------------- episode reset
\* The lookback of each escalating rule, in minutes.
LookbackOf(rule_name) ==
  CASE rule_name = "POST_MEAL_SPIKE" -> 4 * 60
    [] rule_name = "SUSTAINED_HIGH" -> 6 * 60
    [] rule_name = "OVERNIGHT_HIGH" -> 6 * 60
    [] rule_name = "LOW_WARNING" -> 2 * 60

\* The external scheduler's period and how long it is followed.
Periods == {15, 45}
Horizon == 120

\* The scheduler waits for the invocation it started to exit, lets a period
\* pass and holds a new process, which has no exit status yet.
scheduler_wait(p, d) ==
  /\ pc[p] = "idle"
  /\ exit_status[p] # NULL
  /\ now + d <= t0 + Horizon
  /\ now' = now + d
  /\ exit_status' = [exit_status EXCEPT ![p] = NULL]
  /\ UNCHANGED <<t0, PHONE, storeIn, alert_log, alert_snoozes, imsg_log,
                 procVars, probe>>

ResetScenarios ==
  {[at |-> NightStart, readings |-> HighProfile(NightStart), meals |-> <<>>,
    keys |-> {SH, OH}],
   [at |-> NightStart, readings |-> LowProfile(NightStart), meals |-> <<>>,
    keys |-> {LW}],
   [at |-> Evening, readings |-> EveningReadings,
    meals |-> <<Meal(Meal1), Meal(Meal2)>>, keys |-> {}]}

\* What earlier episodes left in alert_log: nothing, or one or two records
\* of a rule an hour apart, the newest of them a minute inside the rule's
\* lookback window, at its edge, or 40 minutes before it.
ResetLogs(sc) ==
  {<<>>} \cup
  {[i \in 1..cnt |->
      AlertRow(Candidate(k[1], i - 1, k[2]),
               sc.at - (LookbackOf(k[1]) + e) - 60 * (cnt - i), 1)] :
     k \in sc.keys, e \in {-1, 0, 40}, cnt \in 1..2}

InitReset ==
  /\ \E sc \in ResetScenarios :
       /\ now = sc.at
       /\ t0 = sc.at
       /\ glucose_readings = sc.readings
       /\ meals = sc.meals
       /\ alert_log \in ResetLogs(sc)
  /\ insulin_doses = <<>>
  /\ alert_snoozes = <<>>
  /\ imsg_log = <<>>
  /\ ProcInit
  /\ PHONE = ALERT_PHONE
  /\ probe = <<>>

\* Live invocations, one per period, and --snooze ALL; sends may fail.
NextReset ==
  \/ \E d \in Periods : scheduler_wait(1, d)
  \/ \E a \in {b \in Args : b.snooze = "ALL" /\ ~b.dry_run /\ ~b.snooze_status
                              /\ ~b.unsnooze} : main_entry(1, a, NoFaults)
  \/ \E a \in {b \in RunArgs : ~b.dry_run} : main_entry(1, a, NoFaults)
  \/ stamp(1)
  \/ \E ok \in BOOLEAN : dispatch_step(1, ok)
  \/ finish(1)

SpecReset == InitReset /\ [][NextReset]_vars

\* --------------------------------------------------- progress of escalation
\* The scheduler invokes the monitor every 20 minutes and the poller stores
\* a reading every 10; the morning is followed for four hours.
InvocationPeriod == 20
PollPeriod == 10
ProgressHorizon == 240
ProgressStart == NightStart + 8 * 60

\* A period passes in which the glucose stays high: the poller stores its
\* readings of 210 mg/dL, the invocation started before has exited and the
\* scheduler holds the next one.
persisting_high(p) ==
  /\ pc[p] = "idle"
  /\ exit_status[p] # NULL
  /\ now + InvocationPeriod <= t0 + ProgressHorizon
  /\ now' = now + InvocationPeriod
  /\ glucose_readings' = glucose_readings \o
       [i \in 1..(InvocationPeriod \div PollPeriod) |->
          Reading(now + PollPeriod * i, 210, "steady")]
  /\ exit_status' = [exit_status EXCEPT ![p] = NULL]
  /\ UNCHANGED <<t0, PHONE, meals, insulin_doses, alert_log, alert_snoozes,
                 imsg_log, procVars, probe>>

\* 08:00 in New York, high for 75 minutes; no snooze is stored, or one that
\* expired in the night.
InitProgress ==
  /\ now = ProgressStart
  /\ t0 = ProgressStart
  /\ glucose_readings = HighProfile(ProgressStart)
  /\ meals = <<>>
  /\ insulin_doses = <<>>
  /\ alert_log = <<>>
  /\ alert_snoozes \in {<<>>, <<EarlierSnooze>>}
  /\ imsg_log = <<>>
  /\ ProcInit
  /\ PHONE = ALERT_PHONE
  /\ probe = <<>>

\* Live invocations, at least one per period, whose sends succeed.
NextProgress ==
  \/ persisting_high(1)
  \/ \E a \in {b \in RunArgs : ~b.dry_run} : main_entry(1, a, NoFaults)
  \/ stamp(1)
  \/ dispatch_step(1, TRUE)
  \/ finish(1)

\* Every invocation runs to its end, and time advances: the scheduler does
\* not start invocations for ever within one period.
SpecProgress ==
  InitProgress /\ [][NextProgress]_vars
    /\ WF_vars(NextProgress) /\ SF_vars(persisting_high(1))

\* ------------------------------------------------------------------ claims
\* C1: should_escalate(H, S) reports level = |H|, and should_fire is true
\* exactly when H is empty or the minutes elapsed since the last record of H
\* are at least S[min(|H|, |S| - 1)] (0-based): beyond the end of S the last
\* wait applies.
C1_ShouldEscalate ==
  probe.out # <<>> =>
    LET H == probe.alert_history
        S == probe.schedule
        level == Len(H)
        wait == S[Min(level, Len(S) - 1) + 1]
    IN /\ probe.out[2] = level
       /\ probe.out[1] <=> (H = <<>> \/ probe.t - H[level].triggered_at >= wait)

\* A history longer than the schedule's last index, decided at the very
\* minute the last wait ends: it fires.
C1_Witness ==
  /\ probe.out # <<>>
  /\ Len(probe.alert_history) > Len(probe.schedule) - 1
  /\ probe.schedule[Len(probe.schedule)] = 30
  /\ probe.t - probe.alert_history[Len(probe.alert_history)].triggered_at = 30
  /\ probe.out = <<TRUE, Len(probe.alert_history)>>

\* The step in which process p's invocation runs the loop over rules.
RunEntry(p) == pc[p] = "idle" /\ pc'[p] = "stamp"

\* One iteration of process p's loop over its candidates.
DispatchStep(p) == pc[p] = "dispatch" /\ di'[p] = di[p] + 1

\* Process p's invocation has gone through all its candidates.
Dispatched(p) == pc[p] = "dispatch" /\ di[p] > Len(all_alerts[p])

\* A stored snooze row names the rule or ALL and expires after this instant.
ActiveSnooze(rule_name) ==
  \E i \in 1..Len(alert_snoozes) :
    /\ alert_snoozes[i].rule_name \in {rule_name, "ALL"}
    /\ now < alert_snoozes[i].expires_at

CandidatesOf(alerts, rule_name) == SelectSeq(alerts, LAMBDA a : a.rule = rule_name)

\* At least six readings in the last 90 minutes, their mean above 200, and
\* the latest reading above 180.
SustainedHighCondition ==
  LET recent == SelectSeq(glucose_readings, LAMBDA r : r.timestamp > now - 90)
  IN /\ Len(recent) >= 6
     /\ SumField(recent, "glucose_mg_dl") > 200 * Len(recent)
     /\ \E i \in 1..Len(glucose_readings) :
          /\ \A j \in 1..Len(glucose_readings) :
               glucose_readings[j].timestamp <= glucose_readings[i].timestamp
          /\ glucose_readings[i].glucose_mg_dl > 180

NoSustainedHighRecord ==
  \A i \in 1..Len(alert_log) :
    alert_log[i].rule_name = "SUSTAINED_HIGH" =>
      alert_log[i].triggered_at <= now - 6 * 60

\* The only SUSTAINED_HIGH record of the last six hours was written one
\* minute ago.
SustainedHighRecordAMinuteAgo ==
  /\ \E i \in 1..Len(alert_log) :
       /\ alert_log[i].rule_name = "SUSTAINED_HIGH"
       /\ alert_log[i].triggered_at = now - 1
  /\ \A i \in 1..Len(alert_log) :
       alert_log[i].rule_name = "SUSTAINED_HIGH" =>
         alert_log[i].triggered_at \in {now - 1} \cup {t \in 0..now : t <= now - 6 * 60}

\* C2 (as amended): while the sustained-high condition holds and no
\* SUSTAINED_HIGH record is younger than six hours, an invocation in which
\* no active snooze matches SUSTAINED_HIGH and its evaluator does not raise
\* produces exactly one SUSTAINED_HIGH candidate, at level 0, and a live one
\* appends its record; an invocation one minute after that record, the
\* condition still holding, produces no SUSTAINED_HIGH candidate.
C2_SustainedHighOnce ==
  [][/\ (RunEntry(1) /\ SustainedHighCondition /\ NoSustainedHighRecord
           /\ ~ActiveSnooze("SUSTAINED_HIGH")
           /\ trace'[1]["SUSTAINED_HIGH"].eval # "error")
        => CandidatesOf(all_alerts'[1], "SUSTAINED_HIGH")
             = <<Candidate("SUSTAINED_HIGH", 0, NULL)>>
     /\ (RunEntry(1) /\ SustainedHighCondition /\ SustainedHighRecordAMinuteAgo)
        => CandidatesOf(all_alerts'[1], "SUSTAINED_HIGH") = <<>>
     /\ (DispatchStep(1) /\ ~args[1].dry_run
           /\ all_alerts[1][di[1]].rule = "SUSTAINED_HIGH")
        => /\ Len(alert_log') = Len(alert_log) + 1
           /\ alert_log'[Len(alert_log')].rule_name = "SUSTAINED_HIGH"
           /\ alert_log'[Len(alert_log')].message = all_alerts[1][di[1]].level
           /\ alert_log'[Len(alert_log')].triggered_at = now_iso[1]
    ]_vars

\* The second invocation, one minute after the level-0 record was written:
\* the condition holds, the rule was evaluated and gave no candidate.
C2_Witness ==
  /\ pc[1] = "stamp"
  /\ SustainedHighCondition
  /\ SustainedHighRecordAMinuteAgo
  /\ \E i \in 1..Len(alert_log) :
       /\ alert_log[i].rule_name = "SUSTAINED_HIGH"
       /\ alert_log[i].triggered_at = now - 1
       /\ alert_log[i].message = 0
  /\ trace[1]["SUSTAINED_HIGH"].eval = "ok"
  /\ trace[1]["SUSTAINED_HIGH"].alerts = <<>>

\* C2 as stated: whenever the condition holds and no SUSTAINED_HIGH record
\* is younger than six hours, the invocation produces exactly one
\* SUSTAINED_HIGH candidate at level 0.
C2_AsStated ==
  [][(RunEntry(1) /\ SustainedHighCondition /\ NoSustainedHighRecord)
        => CandidatesOf(all_alerts'[1], "SUSTAINED_HIGH")
             = <<Candidate("SUSTAINED_HIGH", 0, NULL)>>
    ]_vars

\* C3 (as amended): when an active snooze row matches a rule at the time of
\* its snooze check and the check does not raise, the rule's evaluator is
\* not called and the invocation writes no record for the rule.
C3_SnoozedRuleSkipped ==
  [][/\ \A r \in RuleNames :
          (RunEntry(1) /\ ActiveSnooze(r) /\ trace'[1][r].check # "raised")
            => /\ trace'[1][r].eval = "none"
               /\ CandidatesOf(all_alerts'[1], r) = <<>>
     /\ (DispatchStep(1) /\ alert_log' # alert_log)
          => /\ Len(alert_log') = Len(alert_log) + 1
             /\ trace[1][alert_log'[Len(alert_log')].rule_name].eval = "ok"
    ]_vars

\* A live invocation is through: SUSTAINED_HIGH was snoozed and skipped
\* although its condition holds, another rule's record was written.
C3_Witness ==
  /\ Dispatched(1)
  /\ ~args[1].dry_run
  /\ SustainedHighCondition
  /\ trace[1]["SUSTAINED_HIGH"].check = "snoozed"
  /\ trace[1]["SUSTAINED_HIGH"].eval = "none"
  /\ Len(all_alerts[1]) >= 1
  /\ alert_log # <<>>
  /\ \A i \in 1..Len(alert_log) : alert_log[i].rule_name # "SUSTAINED_HIGH"

\* C3 as stated: an active matching snooze row at the time of the check
\* keeps the evaluator from being called, whatever the check does.
C3_AsStated ==
  [][\A r \in RuleNames :
       (RunEntry(1) /\ ActiveSnooze(r))
         => /\ trace'[1][r].eval = "none"
            /\ CandidatesOf(all_alerts'[1], r) = <<>>
    ]_vars

\* C4: a snooze check that returns finds the rule snoozed exactly when some
\* row naming it or ALL has now < expires_at; a row that expires at this
\* very instant, or earlier, does not keep the rule from being evaluated.
C4_SnoozeExpiryStrict ==
  [][\A r \in RuleNames :
       (RunEntry(1) /\ trace'[1][r].check # "raised")
         => /\ (trace'[1][r].check = "snoozed") <=>
                 \E i \in 1..Len(alert_snoozes) :
                   /\ alert_snoozes[i].rule_name \in {r, "ALL"}
                   /\ now < alert_snoozes[i].expires_at
            /\ (\A i \in 1..Len(alert_snoozes) :
                   alert_snoozes[i].expires_at <= now)
                 => trace'[1][r].eval # "none"
    ]_vars

\* A row matching SUSTAINED_HIGH expires at this very instant, and the rule
\* was checked (clear), evaluated, and gave its candidate: the check cannot
\* have been earlier, when the row was active.
C4_Witness ==
  /\ pc[1] = "stamp"
  /\ alert_snoozes # <<>>
  /\ \A i \in 1..Len(alert_snoozes) :
       /\ alert_snoozes[i].rule_name \in {"SUSTAINED_HIGH", "ALL"}
       /\ alert_snoozes[i].expires_at = now
  /\ trace[1]["SUSTAINED_HIGH"].check = "clear"
  /\ trace[1]["SUSTAINED_HIGH"].alerts # <<>>

\* A step of a --dry-run invocation of process p that is given neither
\* --snooze nor --unsnooze.
DryRunStep(p) ==
  \/ \E a \in Args \ RunArgs :
       a.dry_run /\ a.snooze = "" /\ ~a.unsnooze /\ main_entry(p, a, NoFaults)
  \/ RunEntry(p) /\ args'[p].dry_run
  \/ pc[p] \in {"stamp", "dispatch"} /\ args[p].dry_run
       /\ (pc'[p] # pc[p] \/ di'[p] # di[p])

\* A step of a --dry-run invocation of process p, whatever else it is given.
AnyDryRunStep(p) ==
  \/ \E a \in Args \ RunArgs : a.dry_run /\ main_entry(p, a, NoFaults)
  \/ RunEntry(p) /\ args'[p].dry_run
  \/ pc[p] \in {"stamp", "dispatch"} /\ args[p].dry_run
       /\ (pc'[p] # pc[p] \/ di'[p] # di[p])

\* C5 (as amended): a --dry-run invocation given neither --snooze nor
\* --unsnooze is read-only: it makes no send and changes neither alert_log
\* nor alert_snoozes nor any table the rules read, so the next invocation
\* decides on the store it would have found without the dry run.
C5_DryRunReadOnly ==
  [][DryRunStep(1)
       => UNCHANGED <<alert_log, alert_snoozes, imsg_log, storeIn>>
    ]_vars

\* A dry run is through its two candidates; nothing was sent or logged.
C5_Witness ==
  /\ Dispatched(1)
  /\ args[1].dry_run
  /\ Len(all_alerts[1]) = 2
  /\ sent_count[1] = 2
  /\ alert_log = <<>>
  /\ imsg_log = <<>>

\* C5 as stated: every --dry-run invocation leaves alert_log and
\* alert_snoozes as they were and makes no send.
C5_AsStated ==
  [][AnyDryRunStep(1) => UNCHANGED <<alert_log, alert_snoozes, imsg_log>>]_vars

\* C9: when the snooze check of a rule raises, the rule is evaluated as if
\* it were not snoozed, and the invocation goes on: every other rule is
\* checked, skipped or evaluated as it would have been, and all_alerts
\* holds the candidates of every rule evaluated.
C9_SnoozeCheckFailure ==
  [][\A r \in RuleNames :
       (RunEntry(1) /\ trace'[1][r].check = "raised")
         => /\ trace'[1][r].eval \in {"ok", "error"}
            /\ trace'[1][r].eval = "ok" =>
                 CandidatesOf(all_alerts'[1], r) = rule_fn(r)
            /\ \A q \in RuleNames \ {r} :
                 /\ trace'[1][q].check \in
                      {"raised", IF ActiveSnooze(q) THEN "snoozed" ELSE "clear"}
                 /\ trace'[1][q].check = "clear" => trace'[1][q].eval # "none"
                 /\ trace'[1][q].eval = "ok" =>
                      CandidatesOf(all_alerts'[1], q) = rule_fn(q)
    ]_vars

\* The check of SUSTAINED_HIGH raised while a snooze row matching it was
\* active; the rule was evaluated and gave its candidate, and the other
\* rules were skipped as snoozed.
C9_Witness ==
  /\ pc[1] = "stamp"
  /\ trace[1]["SUSTAINED_HIGH"].check = "raised"
  /\ trace[1]["SUSTAINED_HIGH"].active
  /\ trace[1]["SUSTAINED_HIGH"].eval = "ok"
  /\ CandidatesOf(all_alerts[1], "SUSTAINED_HIGH") # <<>>
  /\ \A q \in RuleNames \ {"SUSTAINED_HIGH"} : trace[1][q].check = "snoozed"

\* The row the dispatch loop of process p writes for its current candidate.
RowFor(p, sent) ==
  [rule_name |-> all_alerts[p][di[p]].rule, triggered_at |-> now_iso[p],
   message |-> all_alerts[p][di[p]].level, sent |-> sent,
   dedup_key |-> all_alerts[p][di[p]].dedup_key]

\* C6: when a rule's evaluator raises, the rule contributes no candidate;
\* every other rule that no active snooze matches is still evaluated, its
\* candidates are in all_alerts, and the invocation ends only after the
\* dispatch loop has gone through every one of them, a live one writing a row
\* for each.
C6_RuleIsolation ==
  [][/\ \A r \in RuleNames :
          (RunEntry(1) /\ trace'[1][r].eval = "error")
            => /\ CandidatesOf(all_alerts'[1], r) = <<>>
               /\ \A q \in RuleNames \ {r} :
                    ~ActiveSnooze(q) =>
                      /\ trace'[1][q].eval \in {"ok", "error"}
                      /\ trace'[1][q].eval = "ok" =>
                           CandidatesOf(all_alerts'[1], q) = rule_fn(q)
     /\ (DispatchStep(1) /\ ~args[1].dry_run)
          => \E sent \in {0, 1} : alert_log' = Append(alert_log, RowFor(1, sent))
     /\ (pc[1] = "dispatch" /\ pc'[1] = "idle") => di[1] = Len(all_alerts[1]) + 1
    ]_vars

\* A live invocation is through: the evaluator of SUSTAINED_HIGH raised,
\* OVERNIGHT_HIGH was evaluated and its row is the one row written.
C6_Witness ==
  /\ Dispatched(1)
  /\ ~args[1].dry_run
  /\ SustainedHighCondition
  /\ trace[1]["SUSTAINED_HIGH"].eval = "error"
  /\ trace[1]["OVERNIGHT_HIGH"].eval = "ok"
  /\ Len(all_alerts[1]) = 1
  /\ Len(alert_log) = 1
  /\ alert_log[1].rule_name = "OVERNIGHT_HIGH"
  /\ alert_log[1].triggered_at = now_iso[1]

\* C7: when the send of a candidate fails in a live invocation, the row of
\* that candidate is written with sent = 0 and the loop goes on to the next
\* candidate: the invocation ends only after every candidate had its send
\* attempted and its row written.
C7_SendFailureLogged ==
  [][/\ (DispatchStep(1) /\ ~args[1].dry_run
           /\ imsg_log' = Append(imsg_log, "raised"))
          => /\ alert_log' = Append(alert_log, RowFor(1, 0))
             /\ pc'[1] = "dispatch"
             /\ UNCHANGED <<all_alerts, now_iso, args>>
     /\ (DispatchStep(1) /\ ~args[1].dry_run)
          => /\ Len(imsg_log') = Len(imsg_log) + 1
             /\ Len(alert_log') = Len(alert_log) + 1
     /\ (pc[1] = "dispatch" /\ pc'[1] = "idle") => di[1] = Len(all_alerts[1]) + 1
    ]_vars

\* A live invocation is through its two candidates: the first send failed
\* and its row has sent = 0, the second was sent and its row has sent = 1.
C7_Witness ==
  /\ Dispatched(1)
  /\ ~args[1].dry_run
  /\ Len(all_alerts[1]) = 2
  /\ imsg_log = <<"raised", "ok">>
  /\ Len(alert_log) = 2
  /\ alert_log[1].rule_name = all_alerts[1][1].rule /\ alert_log[1].sent = 0
  /\ alert_log[2].rule_name = all_alerts[1][2].rule /\ alert_log[2].sent = 1

\* C8: alert_log changes only by a live invocation appending the row of the
\* candidate it is dispatching, one row for each candidate whether the send
\* succeeded or not; every row once written stays as it is.
C8_LogAppendOnly ==
  [][/\ SubSeq(alert_log', 1, Len(alert_log)) = alert_log
     /\ Len(alert_log') >= Len(alert_log)
     /\ alert_log' # alert_log => (DispatchStep(1) /\ ~args[1].dry_run)
     /\ (DispatchStep(1) /\ ~args[1].dry_run)
          => /\ Len(alert_log') = Len(alert_log) + 1
             /\ LET row == alert_log'[Len(alert_log')]
                IN /\ row.rule_name = all_alerts[1][di[1]].rule
                   /\ row.triggered_at = now_iso[1]
                   /\ row.sent \in {0, 1}
     /\ (pc[1] = "dispatch" /\ pc'[1] = "idle") => di[1] = Len(all_alerts[1]) + 1
    ]_vars

\* A second live invocation is through: the log holds the two rows of the
\* first and, after them, the row of this one's candidate, a second row of
\* the first row's rule, unsent.
C8_Witness ==
  /\ Dispatched(1)
  /\ ~args[1].dry_run
  /\ Len(all_alerts[1]) = 1
  /\ Len(alert_log) = 3
  /\ alert_log[1].triggered_at < now_iso[1]
  /\ alert_log[2].triggered_at < now_iso[1]
  /\ alert_log[3].triggered_at = now_iso[1]
  /\ alert_log[3].rule_name = alert_log[1].rule_name
  /\ alert_log[3].message = 1
  /\ alert_log[3].sent = 0

\* The oldest of the six latest readings is at least ten minutes older than
\* the latest and more than 30 mg/dL above it.
RapidDropCondition ==
  LET readings == latest_readings(6)
  IN /\ Len(readings) >= 2
     /\ readings[1].timestamp - readings[Len(readings)].timestamp >= 10
     /\ readings[Len(readings)].glucose_mg_dl - readings[1].glucose_mg_dl > 30

\* C10: an invocation run less than two hours after the triggered_at of a
\* RAPID_DROP record produces no RAPID_DROP candidate, whatever the
\* readings; and a RAPID_DROP row is only ever written at least two hours
\* after every RAPID_DROP row already in the log.
C10_RapidDropCooldown ==
  [][/\ (RunEntry(1)
           /\ \E i \in 1..Len(alert_log) :
                /\ alert_log[i].rule_name = "RAPID_DROP"
                /\ now - alert_log[i].triggered_at < 2 * 60)
          => CandidatesOf(all_alerts'[1], "RAPID_DROP") = <<>>
     /\ (Len(alert_log') = Len(alert_log) + 1
           /\ alert_log'[Len(alert_log')].rule_name = "RAPID_DROP")
          => \A i \in 1..Len(alert_log) :
               alert_log[i].rule_name = "RAPID_DROP" =>
                 alert_log'[Len(alert_log')].triggered_at
                   - alert_log[i].triggered_at >= 2 * 60
    ]_vars

\* Thirty minutes after a RAPID_DROP record a reading of 100 came in, a drop
\* of 80 from the oldest of the latest readings; the rule was evaluated and
\* gave no candidate.
C10_Witness ==
  /\ pc[1] = "stamp"
  /\ RapidDropCondition
  /\ latest_readings(6)[1].glucose_mg_dl = 100
  /\ \E i \in 1..Len(alert_log) :
       /\ alert_log[i].rule_name = "RAPID_DROP"
       /\ alert_log[i].triggered_at = now - 30
  /\ trace[1]["RAPID_DROP"].eval = "ok"
  /\ trace[1]["RAPID_DROP"].alerts = <<>>

\* The newest reading's value.
CurrentBg == glucose_readings[Len(glucose_readings)].glucose_mg_dl

\* C11: whenever the current glucose value is 80 or more and the trend
\* direction is stable or rising, rule_low_warning returns no candidate,
\* whatever the insulin on board, the rate and the alert history.
C11_LowWarningSuppressed ==
  (/\ probe.fn = "rule_low_warning"
   /\ glucose_readings # <<>>
   /\ CurrentBg >= 80
   /\ get_bg_trend.description \in {"stable", "rising"})
    => probe.out = <<>>

\* A value of 82, stable, projected below 80 within 15 minutes, with
\* insulin on board and no alert yet: no candidate.
C11_Witness ==
  /\ probe.fn = "rule_low_warning"
  /\ glucose_readings # <<>>
  /\ CurrentBg = 82
  /\ get_bg_trend.description = "stable"
  /\ 10 * CurrentBg + get_bg_trend.rate10 < 800
  /\ insulin_doses # <<>>
  /\ alert_log = <<>>
  /\ probe.out = <<>>

EscalatingRules ==
  {"POST_MEAL_SPIKE", "SUSTAINED_HIGH", "OVERNIGHT_HIGH", "LOW_WARNING"}

\* The candidates among `alerts` for one key (NULL for the rules without).
KeyedCandidates(alerts, key) == SelectSeq(alerts, LAMBDA a : a.dedup_key = key)

\* The candidates a rule gives for one key.
EpisodeCandidates(rule_name, key) == KeyedCandidates(rule_fn(rule_name), key)

\* The rows of a rule's episode that lie within its lookback.
EpisodeRows(rule_name, key) ==
  {i \in 1..Len(alert_log) :
     /\ alert_log[i].rule_name = rule_name
     /\ alert_log[i].dedup_key = key
     /\ alert_log[i].triggered_at > now - LookbackOf(rule_name)}

EpisodeKeys == {NULL, Meal1, Meal2}

\* C12: a row written for another rule, or for POST_MEAL_SPIKE with another
\* meal's key, leaves what a rule decides for its own episode as it was
\* without the row; and the level of every candidate is the number of rows
\* of its own rule (and, for POST_MEAL_SPIKE, its own meal) within the
\* rule's lookback.
C12_EpisodeScoping ==
  \A r \in EscalatingRules, key \in EpisodeKeys :
    /\ (probe.row # <<>>
          /\ (probe.row.rule_name # r \/ probe.row.dedup_key # key))
         => EpisodeCandidates(r, key) = KeyedCandidates(probe.before[r], key)
    /\ \A j \in 1..Len(EpisodeCandidates(r, key)) :
         EpisodeCandidates(r, key)[j].level = Cardinality(EpisodeRows(r, key))

\* The first meal's episode is at level 1 and fires again, while the
\* second meal has two rows of its own, the later one ten minutes old.
C12_Witness ==
  /\ meals # <<>>
  /\ Len(EpisodeCandidates("POST_MEAL_SPIKE", Meal1)) = 1
  /\ EpisodeCandidates("POST_MEAL_SPIKE", Meal1)[1].level = 1
  /\ Cardinality(EpisodeRows("POST_MEAL_SPIKE", Meal2)) = 2
  /\ \E i \in EpisodeRows("POST_MEAL_SPIKE", Meal2) :
       alert_log[i].triggered_at = now - 10
  /\ EpisodeCandidates("POST_MEAL_SPIKE", Meal2) = <<>>
  /\ Len(EpisodeCandidates("SUSTAINED_HIGH", NULL)) = 1

\* The step of an invocation whose command is --unsnooze (neither --snooze
\* nor --snooze-status, which main() handles first, is given with it).
UnsnoozeStep(p) ==
  \E a \in Args :
    a.unsnooze /\ a.snooze = "" /\ ~a.snooze_status /\ main_entry(p, a, NoFaults)

\* C13: --unsnooze deletes exactly the snooze rows whose expires_at is later
\* than now: the rows with expires_at <= now stay as they were, in their
\* order, no row left snoozes any rule, and alert_log is unchanged.
C13_UnsnoozeExact ==
  [][UnsnoozeStep(1)
       => /\ alert_snoozes' = SelectSeq(alert_snoozes, LAMBDA s : s.expires_at <= now)
          /\ \A r \in RuleNames, i \in 1..Len(alert_snoozes') :
               ~(alert_snoozes'[i].rule_name \in {r, "ALL"}
                   /\ alert_snoozes'[i].expires_at > now)
          /\ alert_log' = alert_log
    ]_vars

\* Every table starts with an active row; here none is left, and two rows
\* that had expired (one of them at this very minute) are still stored.
C13_Witness ==
  /\ Len(alert_snoozes) = 2
  /\ alert_snoozes[1].expires_at = now
  /\ alert_snoozes[2].expires_at < now
  /\ alert_log # <<>>
  /\ \A r \in RuleNames : ~is_snoozed(r)

\* C14: every snooze row created by the --snooze command satisfies
\* expires_at > snoozed_at, for every value of --snooze-duration the command
\* line accepts.
C14_ExpiresAfterSnoozedAt ==
  \A i \in 1..Len(alert_snoozes) :
    alert_snoozes[i].expires_at > alert_snoozes[i].snoozed_at

\* The schedule a rule passes to should_escalate.
ScheduleOf(rule_name) ==
  IF rule_name = "LOW_WARNING" THEN SCHEDULE_URGENT ELSE SCHEDULE_DEFAULT

\* The wait should_escalate requires after a row written at `level`.
RequiredWait(rule_name, level) ==
  LET schedule == ScheduleOf(rule_name)
  IN schedule[Min(level + 1, Len(schedule) - 1) + 1]

\* Process p's live invocation decided to fire the rule at this level and
\* its dispatch loop has gone past that candidate.
Fired(p, rule_name, level) ==
  /\ pc[p] = "dispatch"
  /\ ~args[p].dry_run
  /\ \E j \in 1..(di[p] - 1) :
       all_alerts[p][j].rule = rule_name /\ all_alerts[p][j].level = level

\* C15: with two overlapping live invocations and no lock, duplicate alerts
\* happen: whenever both invocations decided to fire the same rule at the
\* same level (each read the rule's history before the other committed its
\* row) and both have dispatched it, alert_log holds two rows for that rule
\* at that level, one stamped by each invocation; nothing drops the second.
C15_OverlapDuplicates ==
  \A r \in EscalatingRules, level \in 0..MaxLog :
    (Fired(1, r, level) /\ Fired(2, r, level))
      => \E i, j \in 1..Len(alert_log) :
           /\ i # j
           /\ alert_log[i].rule_name = r /\ alert_log[j].rule_name = r
           /\ alert_log[i].message = level /\ alert_log[j].message = level
           /\ alert_log[i].triggered_at = now_iso[1]
           /\ alert_log[j].triggered_at = now_iso[2]

\* Both invocations fired SUSTAINED_HIGH at level 0 and their two rows carry
\* stamps of the same minute, within the 30 minutes the schedule requires
\* after a first alert.
C15_Witness ==
  /\ Fired(1, "SUSTAINED_HIGH", 0)
  /\ Fired(2, "SUSTAINED_HIGH", 0)
  /\ now_iso[2] >= now_iso[1]
  /\ now_iso[2] - now_iso[1] < RequiredWait("SUSTAINED_HIGH", 0)
  /\ \E i, j \in 1..Len(alert_log) :
       /\ i < j
       /\ alert_log[i].rule_name = "SUSTAINED_HIGH"
       /\ alert_log[j].rule_name = "SUSTAINED_HIGH"
       /\ alert_log[i].triggered_at = now_iso[1]
       /\ alert_log[j].triggered_at = now_iso[2]

\* The SUSTAINED_HIGH decision worked out from the AlertRecords alone: with
\* n records of the rule in the last six hours, fire at level n when n = 0 or
\* the newest of them is at least the schedule's wait old.
RecordsDecision ==
  LET rows == {i \in 1..Len(alert_log) :
                 /\ alert_log[i].rule_name = "SUSTAINED_HIGH"
                 /\ alert_log[i].triggered_at > now - 6 * 60}
      n == Cardinality(rows)
      wait == SCHEDULE_DEFAULT[Min(n, Len(SCHEDULE_DEFAULT) - 1) + 1]
      fire == n = 0 \/ \A i \in rows : now - alert_log[i].triggered_at >= wait
  IN IF fire THEN <<Candidate("SUSTAINED_HIGH", n, NULL)>> ELSE <<>>

\* C16: snoozed cycles do not disturb escalation: an invocation in which no
\* active snooze matches a rule (a snooze that has expired is none)
\* evaluates the rule again, and the SUSTAINED_HIGH decision it then takes,
\* fire or not and at which level, is the one the AlertRecords alone give,
\* whatever snooze rows are stored.
C16_SnoozeLeavesEscalation ==
  [][RunEntry(1)
       => /\ \A r \in RuleNames :
               ~ActiveSnooze(r) => trace'[1][r].eval # "none"
          /\ (SustainedHighCondition /\ ~ActiveSnooze("SUSTAINED_HIGH")
                /\ trace'[1]["SUSTAINED_HIGH"].eval # "error")
               => CandidatesOf(all_alerts'[1], "SUSTAINED_HIGH") = RecordsDecision
    ]_vars

\* A SUSTAINED_HIGH record, then a 30-minute snooze of the rule created no
\* earlier than the record; at the minute the snooze expires the invocation
\* evaluates the rule and fires level 1, 30 minutes after the record.
C16_Witness ==
  /\ pc[1] = "stamp"
  /\ Len(alert_snoozes) = 1
  /\ alert_snoozes[1].rule_name = "SUSTAINED_HIGH"
  /\ alert_snoozes[1].expires_at = now
  /\ \E i \in 1..Len(alert_log) :
       /\ alert_log[i].rule_name = "SUSTAINED_HIGH"
       /\ alert_log[i].triggered_at <= alert_snoozes[1].snoozed_at
       /\ alert_log[i].triggered_at = now - 30
  /\ trace[1]["SUSTAINED_HIGH"].check = "clear"
  /\ trace[1]["SUSTAINED_HIGH"].alerts = <<Candidate("SUSTAINED_HIGH", 1, NULL)>>

\* AIT_MINUTES times the sum the claim gives, in hundredths of a unit: over
\* the bolus and correction doses given less than AIT_MINUTES ago, the units
\* times the minutes of action left.
ClaimedIobSum ==
  LET part(i) ==
        LET d == insulin_doses[i]
            elapsed == now - d.timestamp
        IN IF d.type \in {"bolus", "correction"} /\ elapsed >= 0
                /\ elapsed < AIT_MINUTES
           THEN d.units100 * (AIT_MINUTES - elapsed) ELSE 0
      f[i \in 0..Len(insulin_doses)] == IF i = 0 THEN 0 ELSE f[i - 1] + part(i)
  IN f[Len(insulin_doses)]

\* C17: estimate_iob returns the sum, over the bolus and correction doses of
\* the last AIT (180) minutes, of units * max(0, 1 - elapsed/AIT) rounded to
\* two decimals (a nearest hundredth of the sum); basal and meal doses never
\* contribute, no dose in the window gives 0.0, a single 2.0u correction 90
\* minutes ago gives 1.0, and the call writes nothing to the store.
C17_EstimateIob ==
  [][(probe'.fn = "estimate_iob" /\ probe.fn = "none")
       => /\ 2 * (probe'.out * AIT_MINUTES - ClaimedIobSum) <= AIT_MINUTES
          /\ 2 * (ClaimedIobSum - probe'.out * AIT_MINUTES) <= AIT_MINUTES
          /\ ClaimedIobSum = 0 => probe'.out = 0
          /\ insulin_doses = <<Dose(now - 90, 200, "correction")>>
               => probe'.out = 100
          /\ UNCHANGED <<storeIn, alert_log, alert_snoozes>>
    ]_vars

\* A bolus 45 minutes ago beside a basal dose: 1.25 * 135/180 = 0.9375,
\* returned as 0.94, the basal dose adding nothing.
C17_Witness ==
  /\ probe.fn = "estimate_iob"
  /\ insulin_doses = <<Dose(now - 45, 125, "bolus"), Dose(now - 45, 200, "basal")>>
  /\ probe.out = 94

Range(s) == {s[i] : i \in DOMAIN s}

\* The stored reading with the latest timestamp, and the earliest of the
\* three latest.
NewestReading ==
  CHOOSE r \in Range(glucose_readings) :
    \A q \in Range(glucose_readings) : q.timestamp <= r.timestamp

OldestOfThree ==
  LET window == {r \in Range(glucose_readings) :
                   Cardinality({q \in Range(glucose_readings) :
                                  q.timestamp > r.timestamp}) < 3}
  IN CHOOSE r \in window : \A q \in window : r.timestamp <= q.timestamp

\* The rates the claim lists for the seven device labels.
ClaimedRates ==
  [l \in TREND_LABELS |->
     CASE l = "rising quickly" -> 30 [] l = "rising" -> 15
       [] l = "rising slightly" -> 7 [] l = "steady" -> 0
       [] l = "falling slightly" -> -7 [] l = "falling" -> -15
       [] l = "falling quickly" -> -30]

\* What the claim says of get_bg_trend's result `out` apart from the value
\* of the fallback rate: no readings; a label of the table; direction and
\* the zero case of the fallback.
TrendResultOutsideFallbackRate(out) ==
  IF glucose_readings = <<>>
  THEN /\ out.rate10 = 0 /\ out.description = "stable"
       /\ out.current_bg = NULL /\ out.current_ts = NULL
  ELSE LET newest == NewestReading
           oldest == OldestOfThree
           span == newest.timestamp - oldest.timestamp
           diff == newest.glucose_mg_dl - oldest.glucose_mg_dl
       IN /\ out.current_bg = newest.glucose_mg_dl
          /\ out.current_ts = newest.timestamp
          /\ newest.trend \in TREND_LABELS =>
               /\ out.rate10 = 10 * ClaimedRates[newest.trend]
               /\ out.description =
                    (IF ClaimedRates[newest.trend] > 5 THEN "rising"
                     ELSE IF ClaimedRates[newest.trend] < -5 THEN "falling"
                     ELSE "stable")
          /\ (newest.trend \notin TREND_LABELS /\ span > 0) =>
               out.description =
                 (IF diff * 15 > 5 * span THEN "rising"
                  ELSE IF diff * 15 < (-5) * span THEN "falling"
                  ELSE "stable")
          /\ (newest.trend \notin TREND_LABELS /\ span <= 0) =>
               (out.rate10 = 0 /\ out.description = "stable")

\* The fallback applies: readings are stored and the newest one's label is
\* missing or not in the table, the three latest spanning some minutes.
FallbackSpan ==
  IF glucose_readings = <<>> \/ NewestReading.trend \in TREND_LABELS THEN 0
  ELSE NewestReading.timestamp - OldestOfThree.timestamp

FallbackDiff == NewestReading.glucose_mg_dl - OldestOfThree.glucose_mg_dl

\* C18 (as amended): get_bg_trend is total: for each of the seven device
\* labels it returns the rate of the table, rising iff rate > 5, falling iff
\* rate < -5, else stable; for a missing or unrecognized label it returns
\* the two-point estimate (newest - oldest) / span_minutes * 15 over the
\* oldest and newest of up to three readings, rounded to one decimal, with
\* the direction of the unrounded estimate, when the span is positive, and
\* rate 0 / stable otherwise; with no readings it returns rate 0, stable,
\* current value and timestamp null.
C18_TrendTotal ==
  probe.fn = "get_bg_trend"
    => /\ TrendResultOutsideFallbackRate(probe.out)
       /\ FallbackSpan > 0
            => /\ 2 * (probe.out.rate10 * FallbackSpan - FallbackDiff * 150)
                    <= FallbackSpan
               /\ 2 * (FallbackDiff * 150 - probe.out.rate10 * FallbackSpan)
                    <= FallbackSpan

\* Three readings seven minutes apart, 78 then 95, the newest with a label
\* the table does not hold: 17 / 14 * 15 = 18.21..., returned as 18.2, rising.
C18_Witness ==
  /\ probe.fn = "get_bg_trend"
  /\ Len(glucose_readings) = 3
  /\ NewestReading.trend = "unknown"
  /\ FallbackSpan = 14
  /\ FallbackDiff = 17
  /\ probe.out.rate10 = 182
  /\ probe.out.description = "rising"

\* C18 as stated: the fallback returns the two-point estimate itself.
C18_AsStated ==
  probe.fn = "get_bg_trend"
    => /\ TrendResultOutsideFallbackRate(probe.out)
       /\ FallbackSpan > 0
            => probe.out.rate10 * FallbackSpan = FallbackDiff * 150

\* The step with which process p's invocation ends.
EndStep(p) ==
  \/ main_store_unavailable(p)
  \/ finish(p)
  \/ \E a \in Args \ RunArgs : main_entry(p, a, NoFaults)

\* Process p's live invocation ends having had candidates to send while
\* PHONE is empty: the transport could not be set up for any of them.
TransportUninitialized(p) ==
  /\ finish(p)
  /\ PHONE = ""
  /\ ~args[p].dry_run
  /\ all_alerts[p] # <<>>

\* C19: an invocation ends with a non-zero exit status when the store cannot
\* be opened or initialized or when the notification transport cannot be
\* initialized, and with exit status zero in every other case, including
\* when a rule evaluation fails and when a send fails.
C19_ExitStatus ==
  [][EndStep(1)
       => (exit_status'[1] # 0
             <=> (main_store_unavailable(1) \/ TransportUninitialized(1)))
    ]_vars

\* C20: an AlertRecord written with sent = 0 counts toward escalation exactly
\* like one with sent = 1: the decision of a later invocation depends on the
\* rule, key and triggered_at of the records and not on their sent flags.
\* Every candidate's level is the number of records of its episode in the
\* lookback, whatever their flags, it is given only when there is no such
\* record or the newest is at least the schedule's wait old, and the
\* SUSTAINED_HIGH decision is the one worked out from the records without
\* reading a flag.
C20_SentFlagIgnored ==
  /\ \A r \in EscalatingRules, key \in EpisodeKeys :
       \A j \in 1..Len(EpisodeCandidates(r, key)) :
         LET n == Cardinality(EpisodeRows(r, key))
         IN /\ EpisodeCandidates(r, key)[j].level = n
            /\ \A i \in EpisodeRows(r, key) :
                 now - alert_log[i].triggered_at >= RequiredWait(r, n - 1)
  /\ SustainedHighCondition
       => CandidatesOf(rule_fn("SUSTAINED_HIGH"), "SUSTAINED_HIGH") = RecordsDecision

\* The only record is a SUSTAINED_HIGH row of 40 minutes ago whose send
\* failed: the rule fires at level 1, not again at level 0.
C20_Witness ==
  /\ Len(alert_log) = 1
  /\ alert_log[1].rule_name = "SUSTAINED_HIGH"
  /\ alert_log[1].sent = 0
  /\ alert_log[1].triggered_at = now - 40
  /\ rule_fn("SUSTAINED_HIGH") = <<Candidate("SUSTAINED_HIGH", 1, NULL)>>

\* The readings taken in the 30 minutes before the meal, and those taken 30
\* to 120 minutes after it.
BaselineWindow(meal_ts) ==
  SelectSeq(glucose_readings, LAMBDA r :
    r.timestamp >= meal_ts - 30 /\ r.timestamp <= meal_ts)

PeakWindow(meal_ts) ==
  SelectSeq(glucose_readings, LAMBDA r :
    r.timestamp >= meal_ts + 30 /\ r.timestamp <= meal_ts + 120)

\* A baseline exists and peak - baseline > 60, baseline the mean of the one
\* window and peak the maximum of the other.
SpikeOver60(meal_ts) ==
  /\ BaselineWindow(meal_ts) # <<>>
  /\ PeakWindow(meal_ts) # <<>>
  /\ (MaxField(PeakWindow(meal_ts), "glucose_mg_dl") - 60)
        * Len(BaselineWindow(meal_ts))
       > SumField(BaselineWindow(meal_ts), "glucose_mg_dl")

\* C21: for each meal at most 4 hours old whose schedule allows firing,
\* rule_post_meal_spike takes baseline = mean of the readings of the 30
\* minutes before the meal and peak = maximum of the readings 30 to 120
\* minutes after it, readings outside the two windows entering neither, and
\* gives a candidate at level 0 iff a baseline exists and peak - baseline
\* > 60.
C21_PostMealSpikeWindows ==
  probe.fn = "rule_post_meal_spike"
    => \A i \in 1..Len(meals) :
         LET meal_ts == meals[i].timestamp
         IN (now - meal_ts <= 4 * 60
               /\ get_alert_history("POST_MEAL_SPIKE", 4 * 60, meal_ts) = <<>>)
              => (SpikeOver60(meal_ts)
                    <=> \E j \in 1..Len(probe.out) :
                          probe.out[j] = Candidate("POST_MEAL_SPIKE", 0, meal_ts))

\* The three trigger conditions of the low warning, on the current value,
\* the rate per 15 minutes (in tenths) and the insulin on board (in
\* hundredths).
LowTriggerA == 10 * CurrentBg + get_bg_trend.rate10 < 800
LowTriggerB == CurrentBg < 90 /\ estimate_iob > 50 /\ get_bg_trend.rate10 < -50
LowTriggerC == CurrentBg < 80

\* No LOW_WARNING record in the last two hours, or the newest one is at
\* least 15 minutes old.
UrgentScheduleAllows ==
  \A i \in 1..Len(alert_log) :
    (alert_log[i].rule_name = "LOW_WARNING"
       /\ alert_log[i].triggered_at > now - 2 * 60)
      => now - alert_log[i].triggered_at >= 15

\* C22: when the low-warning suppression does not apply (current < 80, or
\* direction falling) and the urgent schedule allows firing,
\* rule_low_warning gives a candidate iff (a) current + rate_per_15 < 80, or
\* (b) current < 90 and IOB > 0.5 and rate_per_15 < -5, or (c) current < 80;
\* it gives none when all three are false.
C22_LowWarningTriggers ==
  (/\ probe.fn = "rule_low_warning"
   /\ glucose_readings # <<>>
   /\ (CurrentBg < 80 \/ get_bg_trend.description = "falling")
   /\ UrgentScheduleAllows)
    => (probe.out # <<>> <=> (LowTriggerA \/ LowTriggerB \/ LowTriggerC))

\* 88 and falling 7 per 15 minutes with 1.67u on board: projected 81, not
\* below 80, so (b) alone gives the candidate.
C22_Witness ==
  /\ probe.fn = "rule_low_warning"
  /\ glucose_readings # <<>>
  /\ CurrentBg = 88
  /\ get_bg_trend.rate10 = -70
  /\ estimate_iob = 167
  /\ ~LowTriggerA /\ LowTriggerB /\ ~LowTriggerC
  /\ UrgentScheduleAllows
  /\ probe.out # <<>>

\* The readings of the last 90 minutes.
Last90 == SelectSeq(glucose_readings, LAMBDA r : r.timestamp > now - 90)

\* Readings i..j of the last 90 minutes are all above 160.
HighRun(i, j) == \A k \in i..j : Last90[k].glucose_mg_dl > 160

\* Some run of readings above 160 lasts more than 60 minutes from its first
\* reading to its last.
RunOver60FirstToLast ==
  \E i \in 1..Len(Last90), j \in 1..Len(Last90) :
    /\ i <= j /\ HighRun(i, j)
    /\ Last90[j].timestamp - Last90[i].timestamp > 60

\* Some run of readings above 160 lasts more than 60 minutes from its first
\* reading to the reading at or below 160 that ends it, or to the last
\* reading when none ends it.
RunOver60ToItsEnd ==
  \E i \in 1..Len(Last90), j \in 1..Len(Last90) :
    /\ i <= j /\ HighRun(i, j)
    /\ IF j = Len(Last90) THEN Last90[j].timestamp - Last90[i].timestamp > 60
       ELSE /\ Last90[j + 1].glucose_mg_dl <= 160
            /\ Last90[j + 1].timestamp - Last90[i].timestamp > 60

\* No OVERNIGHT_HIGH record of the last six hours is younger than the wait
\* the schedule sets after it.
OvernightScheduleAllows ==
  LET rows == {i \in 1..Len(alert_log) :
                 /\ alert_log[i].rule_name = "OVERNIGHT_HIGH"
                 /\ alert_log[i].triggered_at > now - 6 * 60}
  IN \A i \in rows :
       now - alert_log[i].triggered_at
         >= RequiredWait("OVERNIGHT_HIGH", Cardinality(rows) - 1)

OvernightCurrentHigh ==
  /\ glucose_readings # <<>>
  /\ CurrentBg > 160

\* C23 (as amended): rule_overnight_high gives no candidate when the local
\* hour is in [7, 23); between 23:00 and 07:00 it fires, schedule
\* permitting, iff at least six readings lie in the last 90 minutes, the
\* longest run of readings above 160 among them, measured from its first
\* reading to the reading at or below 160 that ends it (to the last reading
\* when none does), lasts more than 60 minutes, and the current reading is
\* above 160.
C23_OvernightHigh ==
  probe.fn = "rule_overnight_high"
    => /\ (7 <= ny_hour(now) /\ ny_hour(now) < 23) => probe.out = <<>>
       /\ (~(7 <= ny_hour(now) /\ ny_hour(now) < 23) /\ OvernightScheduleAllows)
            => (probe.out # <<>>
                  <=> (/\ Len(Last90) >= 6
                       /\ RunOver60ToItsEnd
                       /\ OvernightCurrentHigh))

\* At midnight, readings every 12 minutes: six above 160 spanning 60
\* minutes, then one at 150, 72 minutes after the first, then the current
\* one above 160 again: the rule fires.
C23_Witness ==
  /\ probe.fn = "rule_overnight_high"
  /\ now = NightStart
  /\ alert_log = <<>>
  /\ Len(glucose_readings) = 8
  /\ \A k \in 1..6 : glucose_readings[k].glucose_mg_dl = 170
  /\ glucose_readings[7].glucose_mg_dl = 150
  /\ glucose_readings[8].glucose_mg_dl = 170
  /\ ~RunOver60FirstToLast
  /\ probe.out = <<Candidate("OVERNIGHT_HIGH", 0, NULL)>>

\* C23 as stated: the run is measured from its first to its last reading,
\* and nothing is asked of the number of readings.
C23_AsStated ==
  probe.fn = "rule_overnight_high"
    => /\ (7 <= ny_hour(now) /\ ny_hour(now) < 23) => probe.out = <<>>
       /\ (~(7 <= ny_hour(now) /\ ny_hour(now) < 23) /\ OvernightScheduleAllows)
            => (probe.out # <<>>
                  <=> (RunOver60FirstToLast /\ OvernightCurrentHigh))

\* The row the live invocation of process p has committed for its j-th
\* candidate is in what get_alert_history returns for that candidate's rule
\* and key.
CommittedAndSeen(p, j) ==
  LET alert == all_alerts[p][j]
      history == get_alert_history(alert.rule, LookbackOf(alert.rule),
                                   alert.dedup_key)
  IN \E k \in 1..Len(history) :
       /\ history[k].triggered_at = now_iso[p]
       /\ history[k].message = alert.level

\* C24: dispatch is sequential with one commit per candidate: when the send
\* of candidate i+1 is attempted, and when the invocation is killed during
\* the dispatch of candidate i+1, the AlertRecords of candidates 1..i are in
\* alert_log, stay there, and are in the history the next escalation check
\* reads.
C24_CommitPerCandidate ==
  [][((DispatchStep(1) \/ \E sd \in BOOLEAN : kill(1, sd))
        /\ ~args[1].dry_run)
       => /\ \A j \in 1..(di[1] - 1) :
               all_alerts[1][j].rule \in EscalatingRules => CommittedAndSeen(1, j)
          /\ \A k \in 1..Len(alert_log) :
               k <= Len(alert_log') /\ alert_log'[k] = alert_log[k]
          /\ now' = now
    ]_vars

\* The invocation at the first instant was killed after the SUSTAINED_HIGH
\* row was committed and before that of OVERNIGHT_HIGH; the invocation 30
\* minutes later sees the row and fires SUSTAINED_HIGH at level 1.
C24_Witness ==
  /\ exit_status[1] = SIGKILL_STATUS
  /\ pc[1] = "stamp"
  /\ now = t0 + 30
  /\ Len(alert_log) = 1
  /\ alert_log[1].rule_name = "SUSTAINED_HIGH"
  /\ alert_log[1].triggered_at = t0
  /\ trace[1]["SUSTAINED_HIGH"].alerts = <<Candidate("SUSTAINED_HIGH", 1, NULL)>>

\* Nothing has been written or has elapsed since the first instant: every
\* evaluation made so far read the initial store at the initial time.
NothingSinceStart ==
  /\ now = t0
  /\ \A i \in 1..Len(alert_log) : alert_log[i].triggered_at < t0

\* C25: escalation state is reconstructed, not held: the loop over rules
\* writes nothing to alert_log or alert_snoozes; the SUSTAINED_HIGH decision
\* of every invocation, whichever process runs it and whether or not that
\* process has run, ended or been killed before, is the one the stored rows
\* and now give; and two evaluations at the same instant on the same store
\* with no dispatch in between give the same candidates.
C25_Reconstructed ==
  [][\A p \in Procs :
       RunEntry(p)
         => /\ alert_log' = alert_log
            /\ alert_snoozes' = alert_snoozes
            /\ SustainedHighCondition
                 => CandidatesOf(all_alerts'[p], "SUSTAINED_HIGH") = RecordsDecision
            /\ \A q \in Procs \ {p} :
                 (pc[q] = "stamp" /\ NothingSinceStart)
                   => all_alerts'[p] = all_alerts[q]
    ]_vars

\* Process 1 was killed in its dispatch loop after it committed a
\* SUSTAINED_HIGH record at level 0; 30 minutes later process 2, which has
\* never run, and process 1, started again, both decide level 1.
C25_Witness ==
  /\ exit_status[1] = SIGKILL_STATUS
  /\ exit_status[2] = NULL
  /\ pc[1] = "stamp" /\ pc[2] = "stamp"
  /\ now = t0 + 30
  /\ \E i \in 1..Len(alert_log) :
       alert_log[i].rule_name = "SUSTAINED_HIGH" /\ alert_log[i].triggered_at = t0
  /\ all_alerts[1] = <<Candidate("SUSTAINED_HIGH", 1, NULL)>>
  /\ all_alerts[2] = all_alerts[1]

\* The least distance the claim gives for two records of a rule.
ClaimedGap(rule_name) == IF rule_name = "LOW_WARNING" THEN 15 ELSE 30

\* C26: under serialized invocations any two AlertRecords of a non-keyed
\* escalating rule are at least the schedule's wait apart: 30 minutes for
\* SUSTAINED_HIGH and for OVERNIGHT_HIGH, 15 minutes for LOW_WARNING.
C26_RecordsApart ==
  \A i, j \in 1..Len(alert_log) :
    (/\ i < j
     /\ alert_log[i].rule_name = alert_log[j].rule_name
     /\ alert_log[i].rule_name \in {"SUSTAINED_HIGH", "OVERNIGHT_HIGH", "LOW_WARNING"})
      => alert_log[j].triggered_at - alert_log[i].triggered_at
           >= ClaimedGap(alert_log[i].rule_name)

\* Two records of each of the three rules at exactly the least distance: a
\* LOW_WARNING record 15 minutes after the one before it, and SUSTAINED_HIGH
\* or OVERNIGHT_HIGH records 30 minutes apart.
C26_Witness ==
  /\ \E i, j \in 1..Len(alert_log) :
       /\ alert_log[i].rule_name = alert_log[j].rule_name
       /\ alert_log[i].rule_name \in {"SUSTAINED_HIGH", "OVERNIGHT_HIGH", "LOW_WARNING"}
       /\ alert_log[j].triggered_at > t0
       /\ alert_log[j].triggered_at - alert_log[i].triggered_at
            = ClaimedGap(alert_log[i].rule_name)
  /\ pc[1] = "idle"

ReachesRecheck ==
  /\ glucose_readings # <<>>
  /\ ~(CurrentBg >= 80 /\ get_bg_trend.description \in {"stable", "rising"})
  /\ (LowTriggerA \/ LowTriggerB \/ LowTriggerC)
  /\ UrgentScheduleAllows

\* LOW_WARNING records written in the last two hours.
LowWarningLevel ==
  Cardinality({i \in 1..Len(alert_log) :
                 /\ alert_log[i].rule_name = "LOW_WARNING"
                 /\ alert_log[i].triggered_at > now - 2 * 60})

\* The follow-up re-check's condition.
RecheckCondition ==
  /\ LowWarningLevel > 0
  /\ CurrentBg >= 80
  /\ get_bg_trend.description \in {"stable", "rising"}

\* C28: the level >= 1 re-verification in rule_low_warning never changes
\* the outcome: whenever the evaluation reaches it its condition is false
\* and the rule returns its candidate, at the level the records give; when
\* the evaluation does not reach it the rule returns nothing.
C28_RecheckNeverApplies ==
  probe.fn = "rule_low_warning"
    => IF ReachesRecheck
       THEN /\ ~RecheckCondition
            /\ probe.out = <<Candidate("LOW_WARNING", LowWarningLevel, NULL)>>
       ELSE probe.out = <<>>

\* A follow-up at level 1 with the value still at or above 80 and falling:
\* the re-check is reached and the candidate is returned.
C28_Witness ==
  /\ probe.fn = "rule_low_warning"
  /\ ReachesRecheck
  /\ LowWarningLevel = 1
  /\ CurrentBg >= 80
  /\ get_bg_trend.description = "falling"
  /\ probe.out = <<Candidate("LOW_WARNING", 1, NULL)>>

\* The records of a rule and key written inside the rule's lookback window.
RecordsInWindow(rule_name, key) ==
  {i \in 1..Len(alert_log) :
     /\ alert_log[i].rule_name = rule_name
     /\ alert_log[i].dedup_key = key
     /\ alert_log[i].triggered_at > now - LookbackOf(rule_name)}

\* Two records of one rule and key, both written since the first instant,
\* the later of them at level 0.
LevelBackAtZero ==
  \E i, j \in 1..Len(alert_log) :
    /\ i < j
    /\ alert_log[i].rule_name = alert_log[j].rule_name
    /\ alert_log[i].dedup_key = alert_log[j].dedup_key
    /\ alert_log[i].triggered_at >= t0
    /\ alert_log[j].message = 0

C30_EscalationProgress ==
  /\ \A k \in 1..(MaxLog - 1) :
       (Len(alert_log) = k) ~> (Len(alert_log) = k + 1)
  /\ [](\A i \in 1..Len(alert_log) :
          /\ alert_log[i].rule_name = "SUSTAINED_HIGH"
          /\ i > 1 =>
               alert_log[i].triggered_at - alert_log[i - 1].triggered_at
                 <= RequiredWait("SUSTAINED_HIGH", alert_log[i - 1].message)
                      + InvocationPeriod)

\* Three SUSTAINED_HIGH records: the second 40 minutes after the first (the
\* first invocation after the 30-minute wait), the third 60 minutes after
\* the second.
C30_Witness ==
  /\ Len(alert_log) = 3
  /\ \A i \in 1..3 : alert_log[i].rule_name = "SUSTAINED_HIGH"
  /\ alert_log[2].triggered_at - alert_log[1].triggered_at = 40
  /\ alert_log[3].triggered_at - alert_log[2].triggered_at = 60
  /\ alert_log[3].message = 2

====
